---- MODULE Spec2Model ----
(***************************************************************************)
(* GRAG retrieval of oncology-kg-ai: the graph index (src/retrieval/grag.py *)
(* GraphIndex), the retriever that caches it (GragRetriever) and the       *)
(* search facade (src/search.py SearchManager).                            *)
(*                                                                         *)
(* Numbers.  The code computes in IEEE floating point.  Here every real    *)
(* quantity (vector components, similarities, weights, scores, thresholds) *)
(* is a fixed-point integer counted in 1/Unit, and every product or        *)
(* quotient is rounded to the nearest 1/Unit, as a float operation rounds  *)
(* to the nearest representable value.  As in floating point, the dot      *)
(* product of two rounded unit vectors may exceed Unit by a rounding       *)
(* error.  Node positions are the code's 0-based indices.                  *)
(***************************************************************************)
EXTENDS Integers, Sequences, FiniteSets, TLC

VARIABLES
    store,          \* the MongoDB "nodes" collection, in scan order
    config,         \* GragRetriever._config (a valid GragConfig)
    auto_refresh,   \* SearchManager._auto_refresh
    has_retriever,  \* SearchManager._retriever is not None
    heap,           \* the live GraphIndex objects, by object identity
    r_index,        \* GragRetriever._index: an object identity, or NoObj
    last_built_at,  \* GragRetriever._last_built_at: a clock value, or NoTime
    now,            \* the wall clock read by datetime.now
    auto_builds,    \* history: the build stamps of the last two rebuilds made with force = False
    last_call,      \* history: the last completed call, its arguments and what it returned
    threads,        \* the calls in flight, one per thread (concurrent specification)
    request         \* the arguments of the call under study (retrieval specification)

vars == <<store, config, auto_refresh, has_retriever, heap, r_index,
          last_built_at, now, auto_builds, last_call, threads, request>>

(***************************************************************************)
(* Bounds of the model.                                                    *)
(***************************************************************************)
Unit == 100         \* fixed-point resolution: 1.0 is Unit
MaxDocs == 3        \* documents in the store when retrieve is studied
MaxWrites == 2      \* documents a writer adds while the retriever is in use
MaxTopK == 2        \* largest top_k a caller passes
MaxTime == 2        \* last clock value
MaxThreads == 2     \* concurrent callers
MaxBatch == 2       \* queries in one batch_search call

None == <<"none", 0>>
NoObj == 0
NoTime == -1

(***************************************************************************)
(* Fixed-point arithmetic.                                                 *)
(***************************************************************************)
Max(a, b) == IF a >= b THEN a ELSE b
Min(a, b) == IF a <= b THEN a ELSE b

\* a / b rounded to the nearest integer (b > 0), halves upwards
RoundDiv(a, b) == (2 * a + b) \div (2 * b)

\* x * y of two fixed-point numbers
Mul(x, y) == RoundDiv(x * y, Unit)

\* the largest r in lo..hi with r * r <= x, by bisection
RECURSIVE SqrtBetween(_, _, _)
SqrtBetween(x, lo, hi) ==
    IF lo >= hi THEN lo
    ELSE LET mid == (lo + hi + 1) \div 2
         IN  IF mid * mid <= x THEN SqrtBetween(x, mid, hi)
             ELSE SqrtBetween(x, lo, mid - 1)

\* the square root of x, rounded to the nearest integer, for 0 <= x <= hi * hi
ISqrt(x, hi) ==
    LET r == SqrtBetween(x, 0, hi)
    IN  IF x - r * r > (r + 1) * (r + 1) - x THEN r + 1 ELSE r

Abs(x) == IF x < 0 THEN -x ELSE x

RECURSIVE SumSeq(_)
SumSeq(s) == IF s = <<>> THEN 0 ELSE Head(s) + SumSeq(Tail(s))

\* torch.matmul of two vectors of fixed-point numbers
Dot(u, v) == RoundDiv(SumSeq([i \in 1..Len(u) |-> u[i] * v[i]]), Unit)

\* the L2 norm of a vector of fixed-point numbers
Norm(v) == ISqrt(SumSeq([i \in 1..Len(v) |-> v[i] * v[i]]),
                 SumSeq([i \in 1..Len(v) |-> Abs(v[i])]))

\* F.normalize(v, eps=1e-12): v / max(norm, eps); a zero vector stays zero
Normalize(v) ==
    LET n == Norm(v)
    IN  [i \in 1..Len(v) |-> IF n = 0 THEN 0 ELSE RoundDiv(v[i] * Unit, n)]

\* a stored list of floats as float32 values
AsFloats(raw) == [i \in 1..Len(raw) |-> raw[i] * Unit]

(***************************************************************************)
(* Documents and references.  An ObjectId is <<"oid", i>>; its hex string  *)
(* str(ObjectId) is <<"hex", i>>; any other string is <<"str", j>>.        *)
(***************************************************************************)
NoDim == 0

Oid(i) == <<"oid", i>>

\* str(value) of an ObjectId or a string
Str(value) == IF value[1] = "oid" THEN <<"hex", value[2]>> ELSE value

IsStr(value) == value[1] \in {"hex", "str"}

\* _coerce_object_id: a string that parses as an ObjectId becomes that ObjectId
coerce_object_id(value) ==
    IF value[1] = "hex" THEN <<"oid", value[2]>> ELSE value

\* _ensure_list of a stored list field (absent fields are stored as <<>>)
ensure_list(value) == value

\* GraphIndex._maybe_stringify
maybe_stringify(value) ==
    LET v == coerce_object_id(value)
    IN  IF v = None THEN None ELSE Str(v)

\* a stored embedding field: absent, or a list (ndim 1) or a nested list (ndim 2)
NoEmbedding == [present |-> FALSE, ndim |-> 1, v |-> <<>>]
Vec(raw) == [present |-> TRUE, ndim |-> 1, v |-> raw]
Nested(raw) == [present |-> TRUE, ndim |-> 2, v |-> raw]

\* "not embedding": the field is missing, None or an empty list
Falsy(embedding) == ~embedding.present \/ embedding.v = <<>>

(***************************************************************************)
(* GraphIndex.  An index object is a record of the fields __init__ sets;   *)
(* "phase" is how far the constructor has come.                            *)
(***************************************************************************)
EmptyMap == [x \in {} |-> 0]

MapPut(f, k, v) == [x \in DOMAIN f \cup {k} |-> IF x = k THEN v ELSE f[x]]

\* GraphIndex.__init__ before it calls _build_index
NewGraphIndex ==
    [phase |-> "init",
     nodes |-> <<>>,
     id_to_index |-> EmptyMap,
     nodeid_to_index |-> EmptyMap,
     edge_relations |-> EmptyMap,
     adj |-> EmptyMap,
     embedding_matrix |-> <<>>,
     embedding_dim |-> NoDim,
     stats |-> [total_nodes |-> 0, total_edges |-> 0, embedding_dim |-> NoDim],
     embeddings |-> <<>>,
     relation_queue |-> <<>>]

\* GraphIndex._collect_relations
collect_relations(record, current_id) ==
    LET parent_id == coerce_object_id(record.parentID)
        parent == IF parent_id # None
                  THEN << <<current_id, parent_id, "hierarchy">> >> ELSE <<>>
        kids == ensure_list(record.children)
        links == ensure_list(record.linkedNodes)
        RECURSIVE Each(_, _)
        Each(refs, relation) ==
            IF refs = <<>> THEN <<>>
            ELSE LET ref_id == coerce_object_id(Head(refs))
                 IN  (IF ref_id # None
                      THEN << <<current_id, ref_id, relation>> >> ELSE <<>>)
                     \o Each(Tail(refs), relation)
    IN  parent \o Each(kids, "hierarchy") \o Each(links, "link")

\* a pass of the loop that takes a vector of any length
ScanRecordAnyLength(ix, record) ==
    LET embedding == record.embedding
    IN  IF Falsy(embedding) THEN ix
        ELSE IF embedding.ndim # 1 THEN ix
        ELSE
          LET node_index == Len(ix.nodes)
              nodeid == IF record.nodeid # None THEN record.nodeid ELSE Str(record.id)
              node == [index |-> node_index,
                       object_id |-> record.id,
                       object_id_str |-> Str(record.id),
                       nodeid |-> nodeid,
                       parent_id |-> maybe_stringify(record.parentID),
                       children_ids |-> [k \in 1..Len(record.children) |->
                                            maybe_stringify(record.children[k])],
                       linked_ids |-> [k \in 1..Len(record.linkedNodes) |->
                                          maybe_stringify(record.linkedNodes[k])]]
          IN  [ix EXCEPT
                 !.embedding_dim = IF @ = NoDim THEN Len(embedding.v) ELSE @,
                 !.nodes = Append(@, node),
                 !.id_to_index = MapPut(@, record.id, node_index),
                 !.nodeid_to_index = MapPut(@, nodeid, node_index),
                 !.embeddings = Append(@, AsFloats(embedding.v)),
                 !.relation_queue = @ \o collect_relations(record, record.id)]

\* one pass of the "for record in cursor" loop of _build_index
ScanRecord(ix, record) ==
    LET embedding == record.embedding
    IN  IF Falsy(embedding) THEN ix
        ELSE IF embedding.ndim # 1 THEN ix
        ELSE IF ix.embedding_dim # NoDim /\ Len(embedding.v) # ix.embedding_dim THEN ix
        ELSE
          LET node_index == Len(ix.nodes)
              nodeid == IF record.nodeid # None THEN record.nodeid ELSE Str(record.id)
              node == [index |-> node_index,
                       object_id |-> record.id,
                       object_id_str |-> Str(record.id),
                       nodeid |-> nodeid,
                       parent_id |-> maybe_stringify(record.parentID),
                       children_ids |-> [k \in 1..Len(record.children) |->
                                            maybe_stringify(record.children[k])],
                       linked_ids |-> [k \in 1..Len(record.linkedNodes) |->
                                          maybe_stringify(record.linkedNodes[k])]]
          IN  [ix EXCEPT
                 !.embedding_dim = Len(embedding.v),
                 !.nodes = Append(@, node),
                 !.id_to_index = MapPut(@, record.id, node_index),
                 !.nodeid_to_index = MapPut(@, nodeid, node_index),
                 !.embeddings = Append(@, AsFloats(embedding.v)),
                 !.relation_queue = @ \o collect_relations(record, record.id)]

\* the cursor of collection.find({"embedding": {"$exists": True}}) and the loop over it
RECURSIVE ScanStore(_, _)
ScanStore(ix, docs) ==
    IF docs = <<>> THEN [ix EXCEPT !.phase = "nodes"]
    ELSE ScanStore(IF Head(docs).embedding.present
                   THEN ScanRecord(ix, Head(docs)) ELSE ix,
                   Tail(docs))

\* GraphIndex._resolve_index; -1 stands for None
resolve_index(ix, reference) ==
    IF reference \in DOMAIN ix.id_to_index THEN ix.id_to_index[reference]
    ELSE IF IsStr(reference) /\ reference \in DOMAIN ix.nodeid_to_index
         THEN ix.nodeid_to_index[reference]
    ELSE -1

SortedPair(a, b) == IF a <= b THEN <<a, b>> ELSE <<b, a>>

has_edge(ix, a, b) == \E k \in 1..Len(ix.adj[a]) : ix.adj[a][k] = b

\* a binding that also takes a relation of a node with itself
bind_relationKeepsSelf(ix, src_id, dst_id, relation) ==
    LET src_index == resolve_index(ix, src_id)
        dst_index == resolve_index(ix, dst_id)
        key == SortedPair(src_index, dst_index)
        old == IF key \in DOMAIN ix.edge_relations THEN ix.edge_relations[key] ELSE {}
    IN  IF src_index = -1 \/ dst_index = -1 THEN ix
        ELSE [ix EXCEPT
                !.edge_relations = MapPut(@, key, old \cup {relation}),
                !.adj = IF has_edge(ix, src_index, dst_index) THEN @
                        ELSE [@ EXCEPT ![src_index] = Append(@, dst_index),
                                       ![dst_index] = Append(@, src_index)]]

\* GraphIndex._bind_relation
bind_relation(ix, src_id, dst_id, relation) ==
    LET src_index == resolve_index(ix, src_id)
        dst_index == resolve_index(ix, dst_id)
        key == SortedPair(src_index, dst_index)
        old == IF key \in DOMAIN ix.edge_relations THEN ix.edge_relations[key] ELSE {}
    IN  IF src_index = -1 \/ dst_index = -1 \/ src_index = dst_index THEN ix
        ELSE [ix EXCEPT
                !.edge_relations = MapPut(@, key, old \cup {relation}),
                !.adj = IF has_edge(ix, src_index, dst_index) THEN @
                        ELSE [@ EXCEPT ![src_index] = Append(@, dst_index),
                                       ![dst_index] = Append(@, src_index)]]

RECURSIVE BindAll(_, _)
BindAll(ix, queue) ==
    IF queue = <<>> THEN ix
    ELSE BindAll(bind_relation(ix, Head(queue)[1], Head(queue)[2], Head(queue)[3]),
                 Tail(queue))

\* graph.number_of_edges()
number_of_edges(ix) == Cardinality(DOMAIN ix.edge_relations)

\* _build_index after the loop: vstack and F.normalize of every row
StackEmbeddings(ix) ==
    IF ix.nodes = <<>> THEN ix
    ELSE [ix EXCEPT
            !.phase = "matrix",
            !.embedding_matrix = [k \in 1..Len(ix.embeddings) |-> Normalize(ix.embeddings[k])]]

\* _build_index: the graph's nodes, the queued relations, the statistics
BindRelations(ix) ==
    IF ix.nodes = <<>>
    THEN [ix EXCEPT !.phase = "built",
                    !.stats = [total_nodes |-> 0, total_edges |-> 0, embedding_dim |-> NoDim],
                    !.embeddings = <<>>, !.relation_queue = <<>>]
    ELSE LET g == BindAll([ix EXCEPT !.adj = [i \in 0..(Len(ix.nodes) - 1) |-> <<>>]],
                          ix.relation_queue)
         IN  [g EXCEPT !.phase = "built",
                       !.stats = [total_nodes |-> Len(g.nodes),
                                  total_edges |-> number_of_edges(g),
                                  embedding_dim |-> g.embedding_dim],
                       !.embeddings = <<>>, !.relation_queue = <<>>]

\* the constructor's steps in order; BuildStep(ix, docs) is the next one
BuildStep(ix, docs) ==
    CASE ix.phase = "init" -> ScanStore(ix, docs)
      [] ix.phase = "nodes" -> IF ix.nodes = <<>> THEN BindRelations(ix) ELSE StackEmbeddings(ix)
      [] ix.phase = "matrix" -> BindRelations(ix)
      [] OTHER -> ix

\* GraphIndex(collection): the whole constructor
GraphIndex(docs) == BindRelations(StackEmbeddings(ScanStore(NewGraphIndex, docs)))

num_nodes(ix) == Len(ix.nodes)

\* self._nodes[index] succeeds: a Python list takes the indices -len..len-1
InRange(ix, index) == -Len(ix.nodes) <= index /\ index < Len(ix.nodes)

\* GraphIndex.get_node called with any integer: the node or IndexError; a
\* negative index counts from the end of the list
get_node_call(ix, index) ==
    IF ~InRange(ix, index) THEN [raised |-> "IndexError", node |-> <<>>]
    ELSE IF index >= 0 THEN [raised |-> "none", node |-> <<ix.nodes[index + 1]>>]
    ELSE [raised |-> "none", node |-> <<ix.nodes[Len(ix.nodes) + index + 1]>>]

\* GraphIndex.get_node as the retrieval calls it, with a position of the index
get_node(ix, index) == get_node_call(ix, index).node[1]

degree(ix, i) == Len(ix.adj[i])

\* a stable sort of seq by descending key[x] (list.sort(key=..., reverse=True))
RECURSIVE StableSortDesc(_, _)
StableSortDesc(seq, key) ==
    IF seq = <<>> THEN <<>>
    ELSE LET rest == StableSortDesc(Tail(seq), key)
             x == Head(seq)
             \* x goes before the first element whose key is not greater than its own
             RECURSIVE Insert(_)
             Insert(r) == IF r = <<>> THEN <<x>>
                          ELSE IF key[Head(r)] > key[x] THEN <<Head(r)>> \o Insert(Tail(r))
                          ELSE <<x>> \o r
         IN  Insert(rest)

\* GraphIndex.sorted_neighbors
sorted_neighbors(ix, index) ==
    StableSortDesc(ix.adj[index], [i \in DOMAIN ix.adj |-> degree(ix, i)])

\* sorted(set of relation labels)
SortedLabels(labels) ==
    (IF "hierarchy" \in labels THEN <<"hierarchy">> ELSE <<>>)
    \o (IF "link" \in labels THEN <<"link">> ELSE <<>>)

\* GraphIndex.describe_relations with a limit
describe_relations(ix, index, limit) ==
    LET all == sorted_neighbors(ix, index)
        neighbours == SubSeq(all, 1, Min(limit, Len(all)))
    IN  [k \in 1..Len(neighbours) |->
            LET key == SortedPair(index, neighbours[k])
            IN  [nodeid |-> get_node(ix, neighbours[k]).nodeid,
                 relations |-> SortedLabels(IF key \in DOMAIN ix.edge_relations
                                            THEN ix.edge_relations[key] ELSE {})]]

\* breadth-first search from the frontier, h hops from the source, up to cutoff
RECURSIVE Bfs(_, _, _, _, _)
Bfs(ix, lengths, frontier, h, cutoff) ==
    LET next == {j \in DOMAIN ix.adj :
                    /\ j \notin DOMAIN lengths
                    /\ \E i \in frontier : has_edge(ix, i, j)}
    IN  IF h > cutoff \/ next = {} THEN lengths
        ELSE Bfs(ix, [j \in DOMAIN lengths \cup next |->
                         IF j \in next THEN h ELSE lengths[j]],
                 next, h + 1, cutoff)

\* a search that goes on to the end of the component, whatever the cutoff
shortest_path_lengthsNoCutoff(ix, source_index, cutoff) ==
    IF cutoff = 0 THEN [j \in {source_index} |-> 0]
    ELSE Bfs(ix, [j \in {source_index} |-> 0], {source_index}, 1, Len(ix.nodes))

\* GraphIndex.shortest_path_lengths
shortest_path_lengths(ix, source_index, cutoff) ==
    IF cutoff = 0 THEN [j \in {source_index} |-> 0]
    ELSE Bfs(ix, [j \in {source_index} |-> 0], {source_index}, 1, cutoff)

(***************************************************************************)
(* GragConfig.  Weights, decay and multiplier are fixed-point numbers;     *)
(* cache_ttl_seconds is a number of clock ticks or NoTTL (None).           *)
(***************************************************************************)
NoTTL == -1

\* float("nan"), a value every float field accepts; the number stands for
\* no quantity and is only ever compared through FLt and FLe
NaN == -999999

\* Python's < and <= on floats: false as soon as one side is NaN
FLt(a, b) == a # NaN /\ b # NaN /\ a < b
FLe(a, b) == a # NaN /\ b # NaN /\ a <= b

\* GragConfig.__post_init__: the construction succeeds
post_init(c) ==
    /\ ~(c.hops < 0)
    /\ ~(c.seed_top_k <= 0)
    /\ ~FLt(c.candidate_multiplier, Unit)
    /\ (FLe(0, c.node_weight) /\ FLe(c.node_weight, Unit))
    /\ (FLe(0, c.subgraph_weight) /\ FLe(c.subgraph_weight, Unit))
    /\ ~(c.node_weight + c.subgraph_weight = 0)
    /\ (FLt(0, c.hop_decay) /\ FLe(c.hop_decay, Unit))
    /\ ~(c.max_context_neighbors < 0)

\* GragConfig(...): the frozen instance holding the arguments, or ValueError
NewGragConfig(c) ==
    IF post_init(c) THEN [raised |-> "none", value |-> c]
    ELSE [raised |-> "ValueError", value |-> c]

(***************************************************************************)
(* GragRetriever.retrieve on a non-empty index.                            *)
(***************************************************************************)
Indices(ix) == 0..(num_nodes(ix) - 1)

\* torch.matmul(index.node_embeddings, query_vector)
node_similarities(ix, query_vector) ==
    [i \in Indices(ix) |-> Dot(ix.embedding_matrix[i + 1], query_vector)]

\* every listing of the set S by descending key; equal keys in any order
RECURSIVE DescOrders(_, _)
DescOrders(S, key) ==
    IF S = {} THEN {<<>>}
    ELSE LET top == {x \in S : \A y \in S : key[x] >= key[y]}
         IN  UNION {{<<x>> \o r : r \in DescOrders(S \ {x}, key)} : x \in top}

\* torch.topk(values, k): the indices of the k largest values, largest first.
\* torch leaves the order and the choice among equal values open.
topk(values, k) == {SubSeq(o, 1, k) : o \in DescOrders(DOMAIN values, values)}

\* GragRetriever._compute_subgraph_embedding
compute_subgraph_embedding(ix, node_indices) ==
    LET dim == ix.embedding_dim
        count == Cardinality(node_indices)
        RECURSIVE SumOver(_, _)
        SumOver(S, d) == IF S = {} THEN 0
                         ELSE LET i == CHOOSE i \in S : TRUE
                              IN  ix.embedding_matrix[i + 1][d] + SumOver(S \ {i}, d)
        pooled == [d \in 1..dim |-> RoundDiv(SumOver(node_indices, d), count)]
    IN  Normalize(pooled)

\* hop_decay ** hop_distance
RECURSIVE Pow(_, _)
Pow(x, n) == IF n = 0 THEN Unit ELSE Mul(Pow(x, n - 1), x)

\* the fusion left unclamped
NoClamp(x) == x

\* max(min(x, 1.0), -1.0)
Clamp(x) == Max(Min(x, Unit), -Unit)

\* a fusion that gives every hop distance the full subgraph term
combined_scoreNoDecay(cfg, node_score, subgraph_score, hop_distance) ==
    Clamp(Mul(cfg.node_weight, node_score) + Mul(cfg.subgraph_weight, subgraph_score))

\* the weighted fusion of lines 476-481
combined_score(cfg, node_score, subgraph_score, hop_distance) ==
    LET hop_factor == IF cfg.hops > 0 THEN Pow(cfg.hop_decay, hop_distance) ELSE Unit
    IN  Clamp(Mul(cfg.node_weight, node_score)
              + Mul(Mul(cfg.subgraph_weight, subgraph_score), hop_factor))

\* the scratch state of retrieve before the seed loop (lines 457-459)
NewScratch(ix) ==
    [final_scores |-> [i \in Indices(ix) |-> -Unit],
     candidate_indices |-> {},
     node_context |-> EmptyMap]

\* a pass of the seed loop in which every seed overwrites the scores of its
\* neighbourhood
ExpandSeedOverwrites(ix, cfg, sim, sc, seed_idx) ==
    LET found == shortest_path_lengths(ix, seed_idx, cfg.hops)
        distances == IF seed_idx \in DOMAIN found THEN found
                     ELSE MapPut(found, seed_idx, 0)
        subgraph_nodes == DOMAIN distances
        subgraph_embedding == compute_subgraph_embedding(ix, subgraph_nodes)
        subgraph_score == Dot(subgraph_embedding, sim.query_vector)
        comb == [n \in subgraph_nodes |->
                    combined_score(cfg, sim.node[n], subgraph_score, distances[n])]
    IN  [final_scores |-> [n \in Indices(ix) |->
                              IF n \in subgraph_nodes THEN comb[n]
                              ELSE sc.final_scores[n]],
         candidate_indices |-> sc.candidate_indices \cup subgraph_nodes,
         node_context |-> [n \in DOMAIN sc.node_context \cup subgraph_nodes |->
                              IF n \in subgraph_nodes
                              THEN [seed_node |-> get_node(ix, seed_idx).nodeid,
                                    hop_distance |-> distances[n],
                                    subgraph_score |-> subgraph_score,
                                    local_similarity |-> sim.node[n]]
                              ELSE sc.node_context[n]]]

\* one pass of the seed loop (lines 461-490)
ExpandSeed(ix, cfg, sim, sc, seed_idx) ==
    LET found == shortest_path_lengths(ix, seed_idx, cfg.hops)
        distances == IF seed_idx \in DOMAIN found THEN found
                     ELSE MapPut(found, seed_idx, 0)
        subgraph_nodes == DOMAIN distances
        subgraph_embedding == compute_subgraph_embedding(ix, subgraph_nodes)
        subgraph_score == Dot(subgraph_embedding, sim.query_vector)
        comb == [n \in subgraph_nodes |->
                    combined_score(cfg, sim.node[n], subgraph_score, distances[n])]
        better == {n \in subgraph_nodes : comb[n] > sc.final_scores[n]}
    IN  [final_scores |-> [n \in Indices(ix) |->
                              IF n \in better THEN comb[n] ELSE sc.final_scores[n]],
         candidate_indices |-> sc.candidate_indices \cup subgraph_nodes,
         node_context |-> [n \in DOMAIN sc.node_context \cup better |->
                              IF n \in better
                              THEN [seed_node |-> get_node(ix, seed_idx).nodeid,
                                    hop_distance |-> distances[n],
                                    subgraph_score |-> subgraph_score,
                                    local_similarity |-> sim.node[n]]
                              ELSE sc.node_context[n]]]

RECURSIVE ExpandSeeds(_, _, _, _, _)
ExpandSeeds(ix, cfg, sim, sc, seed_indices) ==
    IF seed_indices = <<>> THEN sc
    ELSE ExpandSeeds(ix, cfg, sim, ExpandSeed(ix, cfg, sim, sc, Head(seed_indices)),
                     Tail(seed_indices))

\* the floor step left out
NoSimilarityFloor(sim, sc) == sc

\* "Ensure every candidate has at least its direct similarity score" (lines 493-495)
SimilarityFloor(sim, sc) ==
    [sc EXCEPT !.final_scores =
        [n \in DOMAIN @ |-> IF n \in sc.candidate_indices /\ @[n] < sim.node[n]
                            THEN sim.node[n] ELSE @[n]]]

\* a fallback that replaces the candidates by the seed set every time
SeedFallbackAlways(sim, sc, seed_indices) ==
    LET seeds == {seed_indices[k] : k \in 1..Len(seed_indices)}
    IN  [sc EXCEPT !.candidate_indices = seeds,
                   !.final_scores = [n \in DOMAIN @ |->
                                        IF n \in seeds THEN sim.node[n] ELSE @[n]]]

\* the fallback to the seed set (lines 497-500)
SeedFallback(sim, sc, seed_indices) ==
    IF sc.candidate_indices # {} THEN sc
    ELSE LET seeds == {seed_indices[k] : k \in 1..Len(seed_indices)}
         IN  [sc EXCEPT !.candidate_indices = seeds,
                        !.final_scores = [n \in DOMAIN @ |->
                                             IF n \in seeds THEN sim.node[n] ELSE @[n]]]

\* a bound on the candidates that looks at the multiplier alone
max_candidatesOfMultiplier(ix, cfg, top_k) ==
    Min(num_nodes(ix), cfg.candidate_multiplier \div Unit)

\* min(index.num_nodes, int(max(top_k, top_k * candidate_multiplier))) (line 502)
max_candidates(ix, cfg, top_k) ==
    Min(num_nodes(ix), Max(top_k * Unit, top_k * cfg.candidate_multiplier) \div Unit)

\* sorted(candidate_indices, key=final_scores, reverse=True)[:max_candidates]:
\* a stable sort of the set's iteration order, which Python leaves open
ordered_candidates(ix, cfg, sc, top_k) ==
    {SubSeq(o, 1, Min(Len(o), max_candidates(ix, cfg, top_k))) :
        o \in DescOrders(sc.candidate_indices, sc.final_scores)}

\* the threshold test left out
AlwaysMeetsThreshold(score, threshold) == TRUE

\* the threshold test of line 508: the candidate is kept
MeetsThreshold(score, threshold) == ~(score < threshold)

\* the result record of one candidate (lines 510-522); without context
\* neighbours (max_context_neighbors = 0) the list is left empty
ResultRecord(ix, cfg, sim, sc, idx) ==
    LET node == get_node(ix, idx)
        context == IF idx \in DOMAIN sc.node_context THEN sc.node_context[idx]
                   ELSE [seed_node |-> node.nodeid,
                         hop_distance |-> 0,
                         subgraph_score |-> sim.node[idx],
                         local_similarity |-> sim.node[idx]]
    IN  [nodeid |-> node.nodeid,
         id |-> node.object_id_str,
         score |-> sc.final_scores[idx],
         graph_context |->
            [seed_node |-> context.seed_node,
             hop_distance |-> context.hop_distance,
             subgraph_score |-> context.subgraph_score,
             local_similarity |-> context.local_similarity,
             neighbors |-> IF cfg.max_context_neighbors > 0
                           THEN describe_relations(ix, idx, cfg.max_context_neighbors)
                           ELSE <<>>]]

\* the loop of lines 505-522 over the ordered candidates
RECURSIVE BuildResults(_, _, _, _, _, _)
BuildResults(ix, cfg, sim, sc, ordered, threshold) ==
    IF ordered = <<>> THEN <<>>
    ELSE (IF MeetsThreshold(sc.final_scores[Head(ordered)], threshold)
          THEN <<ResultRecord(ix, cfg, sim, sc, Head(ordered))>> ELSE <<>>)
         \o BuildResults(ix, cfg, sim, sc, Tail(ordered), threshold)

\* the final slice taken one too long
TopResultsOffByOne(results, top_k) == SubSeq(results, 1, Min(top_k + 1, Len(results)))

\* results.sort(key=score, reverse=True); return results[:top_k] (lines 524-525)
TopResults(results, top_k) ==
    LET order == StableSortDesc([k \in 1..Len(results) |-> k],
                                [k \in 1..Len(results) |-> results[k].score])
        sorted == [k \in 1..Len(results) |-> results[order[k]]]
    IN  SubSeq(sorted, 1, Min(top_k, Len(sorted)))

\* the similarities of lines 451-452 for a unit query vector
Similarities(ix, query_vector) ==
    [query_vector |-> query_vector, node |-> node_similarities(ix, query_vector)]

\* a seed count that looks at seed_top_k alone
seed_countOfConfig(ix, cfg, top_k) == Min(num_nodes(ix), cfg.seed_top_k)

\* min(index.num_nodes, max(top_k, seed_top_k)) (line 454)
seed_count(ix, cfg, top_k) == Min(num_nodes(ix), Max(top_k, cfg.seed_top_k))

\* the scratch state after the seed loop (lines 457-490) for one outcome
\* seed_indices of torch.topk
Fused(ix, cfg, sim, seed_indices) ==
    ExpandSeeds(ix, cfg, sim, NewScratch(ix), seed_indices)

\* the scores after the floor and the fallback (lines 493-500)
Scores(sim, fused, seed_indices) ==
    SeedFallback(sim, SimilarityFloor(sim, fused), seed_indices)

\* what one run of lines 454-503 went through, kept for the properties
NoTrace == [seed_indices |-> <<>>, expanded |-> {}, candidate_indices |-> {},
            fused_scores |-> EmptyMap, node_context |-> EmptyMap,
            final_scores |-> EmptyMap, ordered |-> <<>>]

\* every outcome [result, trace] of retrieve on a non-empty index for a unit
\* query vector: one for each order torch.topk and the set iteration may take
RetrieveOutcomes(ix, cfg, query_vector, top_k, threshold) ==
    LET sim == Similarities(ix, query_vector)
    IN  UNION {
          LET fused == Fused(ix, cfg, sim, seed_indices)
              sc == Scores(sim, fused, seed_indices)
          IN  {[result |-> TopResults(BuildResults(ix, cfg, sim, sc, ordered, threshold), top_k),
                trace |-> [seed_indices |-> seed_indices,
                           expanded |-> fused.candidate_indices,
                           candidate_indices |-> sc.candidate_indices,
                           fused_scores |-> fused.final_scores,
                           node_context |-> sc.node_context,
                           final_scores |-> sc.final_scores,
                           ordered |-> ordered]] :
                  ordered \in ordered_candidates(ix, cfg, sc, top_k)} :
          seed_indices \in topk(sim.node, seed_count(ix, cfg, top_k))}

(***************************************************************************)
(* Queries and the embedding collaborator.  A query is None or a string    *)
(* of characters; the collaborator returns None, a list of floats, a       *)
(* nested list, or raises.                                                 *)
(***************************************************************************)
QueryNone == [is_none |-> TRUE, chars |-> <<>>]
Query(chars) == [is_none |-> FALSE, chars |-> chars]

RECURSIVE LStrip(_)
LStrip(chars) == IF chars # <<>> /\ Head(chars) = " " THEN LStrip(Tail(chars)) ELSE chars

RECURSIVE RStrip(_)
RStrip(chars) ==
    IF chars # <<>> /\ chars[Len(chars)] = " "
    THEN RStrip(SubSeq(chars, 1, Len(chars) - 1)) ELSE chars

\* (query or "").strip()
Strip(query) == IF query.is_none THEN <<>> ELSE RStrip(LStrip(query.chars))

EmbedNone == [kind |-> "none", v |-> <<>>]
EmbedRaises == [kind |-> "raises", v |-> <<>>]
EmbedList(raw) == [kind |-> "list", v |-> raw]
EmbedNested(raw) == [kind |-> "nested", v |-> raw]

\* GragRetriever._embed_query: the error it raises, or "ok"
embed_query_error(embedding, expected_dim) ==
    IF embedding.kind = "raises" THEN "Exception"
    ELSE IF embedding.kind = "none" THEN "RuntimeError"
    ELSE IF embedding.kind # "list" THEN "RuntimeError"
    ELSE IF Len(embedding.v) # expected_dim THEN "RuntimeError"
    ELSE "ok"

\* GragRetriever._embed_query: the unit query vector it returns
embed_query(embedding) == Normalize(AsFloats(embedding.v))

(***************************************************************************)
(* GragRetriever: the index lifecycle.  A retriever state R is the record  *)
(* of the fields the lifecycle reads and writes.                           *)
(***************************************************************************)
Retriever == [heap |-> heap, index |-> r_index, last_built_at |-> last_built_at,
              auto_builds |-> auto_builds]

\* a fresh object identity: the old index is still referenced while the new one is built
NewObj(h) == CHOOSE o \in 1..(Cardinality(DOMAIN h) + 1) : o \notin DOMAIN h

\* a refresh that still keeps the index when exactly the TTL has elapsed
KeepsIndexThroughTTL(R, cfg, force, t) ==
    /\ R.index # NoObj
    /\ ~force
    /\ \/ cfg.cache_ttl_seconds = NoTTL
       \/ /\ R.last_built_at # NoTime
          /\ (t - R.last_built_at) <= cfg.cache_ttl_seconds

\* the early returns of refresh_index (lines 402-408): the cached index is kept
KeepsIndex(R, cfg, force, t) ==
    /\ R.index # NoObj
    /\ ~force
    /\ \/ cfg.cache_ttl_seconds = NoTTL
       \/ /\ R.last_built_at # NoTime
          /\ (t - R.last_built_at) < cfg.cache_ttl_seconds

\* a rebuild that publishes the new index and leaves the build timestamp alone
RebuildUnstamped(R, docs, force, t) ==
    LET o == NewObj(R.heap)
    IN  [heap |-> MapPut(R.heap, o, GraphIndex(docs)),
         index |-> o,
         last_built_at |-> R.last_built_at,
         auto_builds |-> IF force THEN R.auto_builds
                         ELSE IF Len(R.auto_builds) < 2 THEN Append(R.auto_builds, t)
                         ELSE <<R.auto_builds[2], t>>]

\* lines 411-412: build a new GraphIndex, publish it, stamp it
Rebuild(R, docs, force, t) ==
    LET o == NewObj(R.heap)
    IN  [heap |-> MapPut(R.heap, o, GraphIndex(docs)),
         index |-> o,
         last_built_at |-> t,
         auto_builds |-> IF force THEN R.auto_builds
                         ELSE IF Len(R.auto_builds) < 2 THEN Append(R.auto_builds, t)
                         ELSE <<R.auto_builds[2], t>>]

\* GragRetriever.refresh_index at clock value t
refresh_index(R, cfg, docs, force, t) ==
    IF KeepsIndex(R, cfg, force, t) THEN R ELSE Rebuild(R, docs, force, t)

\* a refresh that lets go of the old index before it builds the new one
refresh_index_callDropsFirst(R, cfg, docs, force, t, scan_raises) ==
    IF KeepsIndex(R, cfg, force, t) THEN [raised |-> "none", R |-> R]
    ELSE IF scan_raises
    THEN [raised |-> "Exception", R |-> [R EXCEPT !.index = NoObj]]
    ELSE [raised |-> "none", R |-> Rebuild(R, docs, force, t)]

\* GragRetriever.refresh_index at clock value t when the scan of the store
\* may raise: GraphIndex(...) of line 411 then raises out of _build_index
\* and neither assignment of lines 411-412 is made
refresh_index_call(R, cfg, docs, force, t, scan_raises) ==
    IF KeepsIndex(R, cfg, force, t) THEN [raised |-> "none", R |-> R]
    ELSE IF scan_raises THEN [raised |-> "Exception", R |-> R]
    ELSE [raised |-> "none", R |-> Rebuild(R, docs, force, t)]

\* GragRetriever._ensure_index at clock value t
ensure_index(R, cfg, docs, t) ==
    IF R.index = NoObj THEN refresh_index(R, cfg, docs, TRUE, t)
    ELSE refresh_index(R, cfg, docs, FALSE, t)

\* the objects some reference still reaches; Python frees the others
Live(R) == {R.index} \cup {threads'[k].ref : k \in DOMAIN threads'}
                     \cup {threads'[k].obj : k \in DOMAIN threads'}

\* write the retriever state back
Commit(R) ==
    /\ heap' = [o \in DOMAIN R.heap \cap Live(R) |-> R.heap[o]]
    /\ r_index' = R.index
    /\ last_built_at' = R.last_built_at
    /\ auto_builds' = R.auto_builds

\* a retrieve that asks for the query embedding before it looks at the node count
RetrieveOnEmbedFirst(ix, cfg, query, top_k, threshold, embedding) ==
    IF embed_query_error(embedding, ix.embedding_dim) # "ok"
    THEN {[raised |-> embed_query_error(embedding, ix.embedding_dim),
           result |-> <<>>, trace |-> NoTrace, embedded |-> TRUE]}
    ELSE IF num_nodes(ix) = 0
    THEN {[raised |-> "none", result |-> <<>>, trace |-> NoTrace, embedded |-> TRUE]}
    ELSE {[raised |-> "none", result |-> out.result, trace |-> out.trace,
           embedded |-> TRUE] :
             out \in RetrieveOutcomes(ix, cfg, embed_query(embedding), top_k, threshold)}

\* a retrieve that answers a failed embedding with an empty list
RetrieveOnSwallowsError(ix, cfg, query, top_k, threshold, embedding) ==
    IF num_nodes(ix) = 0
    THEN {[raised |-> "none", result |-> <<>>, trace |-> NoTrace, embedded |-> FALSE]}
    ELSE IF embed_query_error(embedding, ix.embedding_dim) # "ok"
    THEN {[raised |-> "none", result |-> <<>>, trace |-> NoTrace, embedded |-> TRUE]}
    ELSE {[raised |-> "none", result |-> out.result, trace |-> out.trace,
           embedded |-> TRUE] :
             out \in RetrieveOutcomes(ix, cfg, embed_query(embedding), top_k, threshold)}

\* the set of its possible outcomes [raised, result]
RetrieveOn(ix, cfg, query, top_k, threshold, embedding) ==
    IF num_nodes(ix) = 0
    THEN {[raised |-> "none", result |-> <<>>, trace |-> NoTrace, embedded |-> FALSE]}
    ELSE IF embed_query_error(embedding, ix.embedding_dim) # "ok"
    THEN {[raised |-> embed_query_error(embedding, ix.embedding_dim),
           result |-> <<>>, trace |-> NoTrace, embedded |-> TRUE]}
    ELSE {[raised |-> "none", result |-> out.result, trace |-> out.trace,
           embedded |-> TRUE] :
             out \in RetrieveOutcomes(ix, cfg, embed_query(embedding), top_k, threshold)}

NoCall == [op |-> "none"]

(***************************************************************************)
(* The calls, each as one step (a single caller).                          *)
(***************************************************************************)
\* a retrieve that does not look at the query before it uses it
retrieveAnyQuery(R, docs, cfg, query, top_k, threshold, embedding, t) ==
    LET R2 == ensure_index(R, cfg, docs, t)
    IN  {[R |-> R2, raised |-> out.raised, result |-> out.result,
          trace |-> out.trace, embedded |-> out.embedded] :
            out \in RetrieveOn(R2.heap[R2.index], cfg, query, top_k, threshold, embedding)}

\* GragRetriever.retrieve at clock value t from retriever state R:
\* the set of its possible outcomes [R, raised, result]
retrieve(R, docs, cfg, query, top_k, threshold, embedding, t) ==
    IF Strip(query) = <<>>
    THEN {[R |-> R, raised |-> "ValueError", result |-> <<>>, trace |-> NoTrace,
           embedded |-> FALSE]}
    ELSE LET R2 == ensure_index(R, cfg, docs, t)
         IN  {[R |-> R2, raised |-> out.raised, result |-> out.result,
               trace |-> out.trace, embedded |-> out.embedded] :
                 out \in RetrieveOn(R2.heap[R2.index], cfg, query, top_k, threshold, embedding)}

\* the SearchManager.retriever property at clock value t (lines 53-64 of search.py)
retriever_property(R, docs, cfg, t) ==
    IF ~has_retriever THEN R
    ELSE IF auto_refresh THEN refresh_index(R, cfg, docs, FALSE, t)
    ELSE R

\* a direct call of GragRetriever.refresh_index(force)
RefreshIndex(force) ==
    /\ has_retriever
    /\ UNCHANGED <<store, config, auto_refresh, has_retriever, now, threads, request>>
    /\ Commit(refresh_index(Retriever, config, store, force, now))
    /\ last_call' = [op |-> "refresh_index", force |-> force, at |-> now,
                     index_before |-> r_index, built_before |-> last_built_at]

\* a direct call of GragRetriever.retrieve
Retrieve(query, top_k, threshold, embedding) ==
    /\ has_retriever
    /\ UNCHANGED <<store, config, auto_refresh, has_retriever, now, threads, request>>
    /\ \E out \in retrieve(Retriever, store, config, query, top_k, threshold, embedding, now) :
          /\ Commit(out.R)
          /\ last_call' = [op |-> "retrieve", query |-> query, top_k |-> top_k,
                           threshold |-> threshold, embedding |-> embedding,
                           at |-> now, index_before |-> r_index,
                           built_before |-> last_built_at,
                           raised |-> out.raised, result |-> out.result,
                           trace |-> out.trace, embedded |-> out.embedded]

\* SearchManager.search: the retriever property, then retrieve d ticks later
Search(query, top_k, threshold, embedding, d) ==
    /\ now + d <= MaxTime
    /\ UNCHANGED <<store, config, auto_refresh, threads, request>>
    /\ has_retriever' = TRUE
    /\ now' = now + d
    /\ LET R1 == retriever_property(Retriever, store, config, now)
       IN  \E out \in retrieve(R1, store, config, query, top_k, threshold, embedding, now + d) :
              /\ Commit(out.R)
              /\ last_call' = [op |-> "search", query |-> query, top_k |-> top_k,
                               threshold |-> threshold, embedding |-> embedding,
                               at |-> now + d, index_before |-> r_index,
                               built_before |-> last_built_at,
                               raised |-> out.raised, result |-> out.result,
                           trace |-> out.trace, embedded |-> out.embedded]

\* GragRetriever.get_index_stats
GetIndexStats ==
    /\ has_retriever
    /\ UNCHANGED <<store, config, auto_refresh, has_retriever, now, threads, request>>
    /\ LET R == ensure_index(Retriever, config, store, now)
           stats == R.heap[R.index].stats
       IN  /\ Commit(R)
           /\ last_call' = [op |-> "get_index_stats",
                            total_nodes |-> stats.total_nodes,
                            total_edges |-> stats.total_edges,
                            embedding_dim |-> stats.embedding_dim,
                            last_built_at |-> R.last_built_at]

\* the clock advances
Tick ==
    /\ now < MaxTime
    /\ now' = now + 1
    /\ UNCHANGED <<store, config, auto_refresh, has_retriever, heap, r_index,
                   last_built_at, auto_builds, last_call, threads, request>>

\* a writer adds a document to the collection
InsertDoc(doc) ==
    /\ Len(store) < MaxWrites
    /\ store' = Append(store, doc)
    /\ UNCHANGED <<config, auto_refresh, has_retriever, heap, r_index,
                   last_built_at, now, auto_builds, last_call, threads, request>>

(***************************************************************************)
(* The inputs the specifications draw from.                                *)
(***************************************************************************)
Frac(n, d) == (n * Unit) \div d

Doc(i, embedding, parentID, linkedNodes) ==
    [id |-> Oid(i), nodeid |-> <<"str", i>>, embedding |-> embedding,
     parentID |-> parentID, children |-> <<>>, linkedNodes |-> linkedNodes,
     text |-> <<"t">>, notes |-> <<>>, richText |-> <<>>]

NoRequest == [query |-> QueryNone, top_k |-> 0, threshold |-> 0, embedding |-> EmbedNone]

\* the defaults of the GragConfig dataclass (lines 56-64), without a TTL
DefaultConfig ==
    [hops |-> 2, seed_top_k |-> 24, candidate_multiplier |-> 3 * Unit,
     node_weight |-> Frac(6, 10), subgraph_weight |-> Frac(4, 10),
     hop_decay |-> Frac(3, 4), cache_ttl_seconds |-> NoTTL,
     max_context_neighbors |-> 6]

RetrievalConfigs ==
    {c \in {DefaultConfig,
            [DefaultConfig EXCEPT !.hops = 1, !.seed_top_k = 1,
                                  !.candidate_multiplier = Unit,
                                  !.max_context_neighbors = 0],
            [DefaultConfig EXCEPT !.hops = 0, !.seed_top_k = 1,
                                  !.candidate_multiplier = Frac(3, 2),
                                  !.node_weight = Unit, !.subgraph_weight = Unit,
                                  !.hop_decay = Unit],
            [DefaultConfig EXCEPT !.hops = 1, !.seed_top_k = 1,
                                  !.node_weight = 0, !.subgraph_weight = Unit]} :
        post_init(c)}

\* stored vectors: two that normalise exactly and one that rounds
StoredVectors == << <<1, 0>>, <<1, 1>>, <<3, 4>> >>

\* document i stores one of two of the vectors, so that some documents tie
VectorsOf(i) == {StoredVectors[(i % 3) + 1], StoredVectors[((i + 1) % 3) + 1]}

\* the stores of n documents with embeddings: document i may name document
\* i - 1 as its parent, and the third document may link to the first
RetrievalDocs(i) ==
    {Doc(i, Vec(v), p, l) :
        v \in VectorsOf(i),
        p \in {None} \cup (IF i > 1 THEN {Oid(i - 1)} ELSE {}),
        l \in {<<>>} \cup (IF i = 3 THEN {<<Oid(1)>>} ELSE {})}

RECURSIVE StoresOfLen(_)
StoresOfLen(n) ==
    IF n = 0 THEN {<<>>}
    ELSE {Append(st, d) : st \in StoresOfLen(n - 1), d \in RetrievalDocs(n)}

RetrievalStores == UNION {StoresOfLen(n) : n \in 1..MaxDocs}

\* what the embedding collaborator returns for the query
QueryVectors == {<<1, 1>>, <<-1, 0>>}

Thresholds == {-Frac(3, 2), Frac(3, 4), Frac(3, 2)}

RetrievalRequests ==
    [query : {Query(<<"q">>)}, top_k : 1..MaxTopK, threshold : Thresholds,
     embedding : {EmbedList(v) : v \in QueryVectors}]

(***************************************************************************)
(* SpecRetrieve: retrieve as a function of the store, the configuration    *)
(* and the request, all drawn by Init; the action applies it.              *)
(***************************************************************************)
InitRetrieve ==
    /\ store \in RetrievalStores
    /\ config \in RetrievalConfigs
    /\ request \in RetrievalRequests
    /\ auto_refresh = TRUE
    /\ has_retriever = TRUE
    /\ heap = EmptyMap
    /\ r_index = NoObj
    /\ last_built_at = NoTime
    /\ now = 0
    /\ auto_builds = <<>>
    /\ last_call = NoCall
    /\ threads = <<>>

\* the caller makes the call under study, once
RetrieveRequest ==
    /\ last_call = NoCall
    /\ Retrieve(request.query, request.top_k, request.threshold, request.embedding)

NextRetrieve == RetrieveRequest

SpecRetrieve == InitRetrieve /\ [][NextRetrieve]_vars

(***************************************************************************)
(* SpecFusion: retrieve again as a function of its inputs, for the seed    *)
(* loop and the truncation: several seeds per call, a multiplier whose     *)
(* product with top_k is not whole, and thresholds on both sides of the    *)
(* scores.                                                                 *)
(***************************************************************************)
FusionConfigs ==
    {c \in {DefaultConfig,
            [DefaultConfig EXCEPT !.hops = 1, !.seed_top_k = 1,
                                  !.candidate_multiplier = Frac(3, 2),
                                  !.max_context_neighbors = 0],
            [DefaultConfig EXCEPT !.hops = 1, !.seed_top_k = 1,
                                  !.candidate_multiplier = Unit,
                                  !.node_weight = 0, !.subgraph_weight = Unit]} :
        post_init(c)}

\* the stores of n documents with embeddings: the first two documents store
\* one of two vectors, so that some tie, document i may name document i - 1
\* as its parent, and the third document may link to the first
FusionDocs(i) ==
    {Doc(i, Vec(v), p, l) :
        v \in IF i <= 2 THEN VectorsOf(i) ELSE {StoredVectors[(i % 3) + 1]},
        p \in {None} \cup (IF i > 1 THEN {Oid(i - 1)} ELSE {}),
        l \in {<<>>} \cup (IF i = 3 THEN {<<Oid(1)>>} ELSE {})}

RECURSIVE FusionStoresOfLen(_)
FusionStoresOfLen(n) ==
    IF n = 0 THEN {<<>>}
    ELSE {Append(st, d) : st \in FusionStoresOfLen(n - 1), d \in FusionDocs(n)}

FusionStores == UNION {FusionStoresOfLen(n) : n \in 1..MaxDocs}

FusionRequests ==
    [query : {Query(<<"q">>)}, top_k : 1..MaxTopK,
     threshold : {-Frac(3, 2), Frac(3, 4)},
     embedding : {EmbedList(v) : v \in QueryVectors}]

InitFusion ==
    /\ store \in FusionStores
    /\ config \in FusionConfigs
    /\ request \in FusionRequests
    /\ auto_refresh = TRUE
    /\ has_retriever = TRUE
    /\ heap = EmptyMap
    /\ r_index = NoObj
    /\ last_built_at = NoTime
    /\ now = 0
    /\ auto_builds = <<>>
    /\ last_call = NoCall
    /\ threads = <<>>

NextFusion == RetrieveRequest

SpecFusion == InitFusion /\ [][NextFusion]_vars

(***************************************************************************)
(* SpecDecay: the fusion of lines 471-481 as a function of the             *)
(* configuration, the two scores and the hop distance, drawn by Init; the  *)
(* action computes it for a node at that distance and for one a hop        *)
(* further from the same seed.                                             *)
(***************************************************************************)
DecayConfigs ==
    {c \in {[DefaultConfig EXCEPT !.hops = h, !.node_weight = nw,
                                  !.subgraph_weight = sw, !.hop_decay = hd] :
               h \in 1..3, nw \in {0, Frac(6, 10), Unit},
               sw \in {0, Frac(4, 10), Unit},
               hd \in {Frac(1, 2), Frac(3, 4), Unit - 1, Unit}} :
        post_init(c)}

\* a local similarity, a subgraph score and a hop distance; the similarities
\* include the values rounding leaves just outside [-1, 1]
FusionInputs ==
    [node_score : {-Unit - 1, -Frac(1, 2), 0, Frac(1, 2), Unit + 1},
     subgraph_score : {-Unit, -Frac(1, 2), -1, 0, 1, Frac(1, 2), Unit},
     hop_distance : 0..2]

InitDecay ==
    /\ config \in DecayConfigs
    /\ request \in {i \in FusionInputs : i.hop_distance < config.hops}
    /\ store = <<>>
    /\ auto_refresh = TRUE
    /\ has_retriever = FALSE
    /\ heap = EmptyMap
    /\ r_index = NoObj
    /\ last_built_at = NoTime
    /\ now = 0
    /\ auto_builds = <<>>
    /\ last_call = NoCall
    /\ threads = <<>>

\* one pass of lines 471-481 over two nodes of a seed's neighbourhood, at
\* request.hop_distance and one hop further
FuseScores ==
    /\ last_call = NoCall
    /\ last_call' =
          [op |-> "combined_score",
           at |-> combined_score(config, request.node_score,
                                 request.subgraph_score, request.hop_distance),
           further |-> combined_score(config, request.node_score,
                                      request.subgraph_score,
                                      request.hop_distance + 1)]
    /\ UNCHANGED <<store, config, auto_refresh, has_retriever, heap, r_index,
                   last_built_at, now, auto_builds, threads, request>>

NextDecay == FuseScores

SpecDecay == InitDecay /\ [][NextDecay]_vars

(***************************************************************************)
(* SpecExample: retrieve on the four-node index A - B (hierarchy), B - C   *)
(* (link), D isolated, whose similarities to the query are 0.9, 0.5, 0.4   *)
(* and 0.1; Init draws hops, seed_top_k, top_k and the threshold.          *)
(***************************************************************************)
\* A, B, C and D in scan order: B names A as its parent and links to C
ExampleStore ==
    << Doc(1, Vec(<<90, 44>>), None, <<>>),
       Doc(2, Vec(<<50, 87>>), Oid(1), <<Oid(3)>>),
       Doc(3, Vec(<<40, 92>>), None, <<>>),
       Doc(4, Vec(<<10, 99>>), None, <<>>) >>

ExampleConfigs ==
    {c \in {[DefaultConfig EXCEPT !.hops = h, !.seed_top_k = s] :
               h \in 0..2, s \in 1..Len(ExampleStore)} :
        post_init(c)}

ExampleRequests ==
    [query : {Query(<<"q">>)}, top_k : 1..Len(ExampleStore),
     threshold : {0, Frac(9, 20), Frac(3, 4)},
     embedding : {EmbedList(<<1, 0>>)}]

InitExample ==
    /\ store = ExampleStore
    /\ config \in ExampleConfigs
    /\ request \in ExampleRequests
    /\ auto_refresh = TRUE
    /\ has_retriever = TRUE
    /\ heap = EmptyMap
    /\ r_index = NoObj
    /\ last_built_at = NoTime
    /\ now = 0
    /\ auto_builds = <<>>
    /\ last_call = NoCall
    /\ threads = <<>>

NextExample == RetrieveRequest

SpecExample == InitExample /\ [][NextExample]_vars

(***************************************************************************)
(* SpecConfig: GragConfig is constructed from arguments drawn by Init.     *)
(***************************************************************************)
\* field values on both sides of every check of __post_init__; the float
\* fields may also be NaN
ConfigArguments ==
    [hops : {-1, 0, 2},
     seed_top_k : {-1, 0, 1},
     candidate_multiplier : {Frac(1, 2), Unit - 1, Unit, 3 * Unit, NaN},
     node_weight : {-1, 0, Frac(6, 10), Unit, Unit + 1, NaN},
     subgraph_weight : {-1, 0, Frac(4, 10), Unit, Unit + 1, NaN},
     hop_decay : {-1, 0, 1, Unit, Unit + 1, NaN},
     cache_ttl_seconds : {NoTTL},
     max_context_neighbors : {-1, 0, 6}]

InitConfig ==
    /\ request \in ConfigArguments
    /\ store = <<>>
    /\ config = DefaultConfig
    /\ auto_refresh = TRUE
    /\ has_retriever = FALSE
    /\ heap = EmptyMap
    /\ r_index = NoObj
    /\ last_built_at = NoTime
    /\ now = 0
    /\ auto_builds = <<>>
    /\ last_call = NoCall
    /\ threads = <<>>

\* the caller constructs a GragConfig and, when that succeeds, uses it
ConstructConfig ==
    /\ last_call = NoCall
    /\ LET made == NewGragConfig(request)
       IN  /\ last_call' = [op |-> "GragConfig", arguments |-> request,
                            raised |-> made.raised]
           /\ config' = IF made.raised = "none" THEN made.value ELSE config
    /\ UNCHANGED <<store, auto_refresh, has_retriever, heap, r_index,
                   last_built_at, now, auto_builds, threads, request>>

NextConfig == ConstructConfig

SpecConfig == InitConfig /\ [][NextConfig]_vars

(***************************************************************************)
(* Spec: one caller uses the retriever, directly or through the            *)
(* SearchManager, while the clock advances and a writer adds documents.    *)
(***************************************************************************)
\* a TTL of one clock tick, or none
LifeConfigs ==
    {c \in {[DefaultConfig EXCEPT !.cache_ttl_seconds = ttl] : ttl \in {NoTTL, 1}} :
        post_init(c)}

\* the next document written: one with an embedding, child of the one before;
\* the first may also be one without an embedding
LifeDocs(i) ==
    {Doc(i, Vec(StoredVectors[(i % 3) + 1]), IF i > 1 THEN Oid(i - 1) ELSE None, <<>>)}
    \cup (IF i = 1 THEN {Doc(i, NoEmbedding, None, <<>>)} ELSE {})

\* queries that are empty after trimming
BlankQueries == {Query(<<" ">>), QueryNone}

\* the collaborator returns a vector of the index's length, one too short,
\* a nested list or nothing, or raises
LifeEmbeddings ==
    {EmbedList(<<1, 1>>), EmbedList(<<1>>), EmbedNested(<<1, 1>>), EmbedNone, EmbedRaises}

Init ==
    /\ store = <<>>
    /\ config \in LifeConfigs
    /\ auto_refresh \in BOOLEAN
    /\ has_retriever \in BOOLEAN
    /\ heap = EmptyMap
    /\ r_index = NoObj
    /\ last_built_at = NoTime
    /\ now = 0
    /\ auto_builds = <<>>
    /\ last_call = NoCall
    /\ threads = <<>>
    /\ request = NoRequest

Next ==
    \/ Tick
    \/ \E doc \in LifeDocs(Len(store) + 1) : InsertDoc(doc)
    \/ \E force \in BOOLEAN : RefreshIndex(force)
    \/ \E embedding \in LifeEmbeddings : Retrieve(Query(<<"q">>), 1, 0, embedding)
    \/ \E query \in BlankQueries : Retrieve(query, 1, 0, EmbedNone)
    \/ \E d \in 0..1 : Search(Query(<<"q">>), 1, 0, EmbedList(<<1, 1>>), d)
    \/ GetIndexStats

Spec == Init /\ [][Next]_vars

(***************************************************************************)
(* SpecOutage: refresh_index is called, forced or not, while the clock     *)
(* advances, a writer adds documents, and the scan of the store may raise. *)
(***************************************************************************)
\* the cached index object, or None
CachedObject(h, idx) == IF idx = NoObj THEN None ELSE h[idx]

\* a direct call of GragRetriever.refresh_index(force)
RefreshIndexScan(force, scan_raises) ==
    /\ has_retriever
    /\ UNCHANGED <<store, config, auto_refresh, has_retriever, now, threads, request>>
    /\ LET out == refresh_index_call(Retriever, config, store, force, now, scan_raises)
       IN  /\ Commit(out.R)
           /\ last_call' = [op |-> "refresh_index", force |-> force, at |-> now,
                            raised |-> out.raised,
                            index_before |-> r_index, built_before |-> last_built_at,
                            object_before |-> CachedObject(heap, r_index)]

InitOutage ==
    /\ store = <<>>
    /\ config \in LifeConfigs
    /\ auto_refresh \in BOOLEAN
    /\ has_retriever = TRUE
    /\ heap = EmptyMap
    /\ r_index = NoObj
    /\ last_built_at = NoTime
    /\ now = 0
    /\ auto_builds = <<>>
    /\ last_call = NoCall
    /\ threads = <<>>
    /\ request = NoRequest

NextOutage ==
    \/ Tick
    \/ \E doc \in LifeDocs(Len(store) + 1) : InsertDoc(doc)
    \/ \E force \in BOOLEAN, scan_raises \in BOOLEAN : RefreshIndexScan(force, scan_raises)

SpecOutage == InitOutage /\ [][NextOutage]_vars

(***************************************************************************)
(* SpecManager: the index is refreshed through the SearchManager, in       *)
(* every state searches, the clock and a writer can bring it to.           *)
(***************************************************************************)
\* the GraphIndex objects built between retriever states Ra and Rb of one
\* call: a rebuild publishes an object that was not there before
BuiltBetween(Ra, Rb) == IF Rb.index # Ra.index THEN 1 ELSE 0

\* SearchManager.refresh_index(force) (lines 70-72 of search.py): the
\* retriever property, then GragRetriever.refresh_index(force) on it
ManagerRefreshIndex(force) ==
    /\ UNCHANGED <<store, config, auto_refresh, now, threads, request>>
    /\ has_retriever' = TRUE
    /\ LET R1 == retriever_property(Retriever, store, config, now)
           R2 == refresh_index(R1, config, store, force, now)
       IN  /\ Commit(R2)
           /\ last_call' = [op |-> "manager_refresh_index", force |-> force,
                            at |-> now, retriever_before |-> has_retriever,
                            index_before |-> r_index, built_before |-> last_built_at,
                            rebuilds |-> BuiltBetween(Retriever, R1) + BuiltBetween(R1, R2)]

InitManager ==
    /\ store = <<>>
    /\ config \in LifeConfigs
    /\ auto_refresh \in BOOLEAN
    /\ has_retriever = FALSE
    /\ heap = EmptyMap
    /\ r_index = NoObj
    /\ last_built_at = NoTime
    /\ now = 0
    /\ auto_builds = <<>>
    /\ last_call = NoCall
    /\ threads = <<>>
    /\ request = NoRequest

NextManager ==
    \/ Tick
    \/ \E doc \in LifeDocs(Len(store) + 1) : InsertDoc(doc)
    \/ \E query \in BlankQueries \cup {Query(<<"q">>)} :
          Search(query, 1, 0, EmbedList(<<1, 1>>), 0)
    \/ \E force \in BOOLEAN : ManagerRefreshIndex(force)

SpecManager == InitManager /\ [][NextManager]_vars

(***************************************************************************)
(* SpecConc: several threads call retrieve and refresh_index on one        *)
(* retriever.  The source takes no lock, so the calls interleave at every  *)
(* read and write of self._index and self._last_built_at; the constructor  *)
(* of GraphIndex works on an object no other thread can reach until line   *)
(* 411 stores it.  A thread makes one call.                                *)
(***************************************************************************)
IdleThread == [pc |-> "idle", op |-> "none", force |-> FALSE,
               ref |-> NoObj, obj |-> NoObj, seen |-> {}]

\* the objects still referenced by the retriever or by a thread's locals
Collect(h, idx, thr) ==
    [o \in {x \in DOMAIN h : \/ x = idx
                             \/ \E k \in DOMAIN thr : thr[k].ref = x \/ thr[k].obj = x}
        |-> h[o]]

\* thread k enters refresh_index(force), or retrieve with a query that is
\* non-empty up to line 415, where _ensure_index chooses the force flag.
\* The threads are numbered in the order of their calls.
Call(k, op, force) ==
    /\ threads[k].pc = "idle"
    /\ \A j \in 1..(k - 1) : threads[j].pc # "idle"
    /\ threads' = [threads EXCEPT ![k].op = op, ![k].pc = "check_index",
                                  ![k].force = IF op = "retrieve" THEN r_index = NoObj
                                               ELSE force]
    /\ UNCHANGED <<store, config, auto_refresh, has_retriever, heap, r_index,
                   last_built_at, now, auto_builds, last_call, request>>

\* where a call goes when refresh_index returns
AfterRefresh(t) == IF t.op = "retrieve" THEN "return_index" ELSE "return"

\* line 402
CheckIndex(k) ==
    /\ threads[k].pc = "check_index"
    /\ threads' = [threads EXCEPT ![k].force = FALSE,
                                  ![k].pc = IF r_index # NoObj /\ ~threads[k].force
                                            THEN "check_ttl" ELSE "construct"]
    /\ UNCHANGED <<store, config, auto_refresh, has_retriever, heap, r_index,
                   last_built_at, now, auto_builds, last_call, request>>

\* lines 403-408
CheckTTL(k) ==
    /\ threads[k].pc = "check_ttl"
    /\ threads' = [threads EXCEPT ![k].pc =
                      IF config.cache_ttl_seconds = NoTTL THEN AfterRefresh(threads[k])
                      ELSE IF /\ last_built_at # NoTime
                              /\ (now - last_built_at) < config.cache_ttl_seconds
                           THEN AfterRefresh(threads[k])
                      ELSE "construct"]
    /\ UNCHANGED <<store, config, auto_refresh, has_retriever, heap, r_index,
                   last_built_at, now, auto_builds, last_call, request>>

\* line 411, the constructor call: a new object, reachable from this thread
\* only, and the scan of the store into it
Construct(k) ==
    /\ threads[k].pc = "construct"
    /\ LET o == NewObj(heap)
       IN  /\ heap' = MapPut(heap, o, BuildStep(NewGraphIndex, store))
           /\ threads' = [threads EXCEPT ![k].obj = o, ![k].pc = "build"]
    /\ UNCHANGED <<store, config, auto_refresh, has_retriever, r_index,
                   last_built_at, now, auto_builds, last_call, request>>

\* the constructor's next step on the thread's own object
Build(k) ==
    /\ threads[k].pc = "build"
    /\ heap[threads[k].obj].phase # "built"
    /\ heap' = [heap EXCEPT ![threads[k].obj] = BuildStep(@, store)]
    /\ UNCHANGED <<store, config, auto_refresh, has_retriever, r_index, threads,
                   last_built_at, now, auto_builds, last_call, request>>

\* a publication that does not wait for the constructor
PublishesUnbuilt(ix) == TRUE

\* line 411 stores the object only once the constructor has returned
CanPublish(ix) == ix.phase = "built"

\* line 411, the store to self._index
Publish(k) ==
    /\ threads[k].pc = "build"
    /\ CanPublish(heap[threads[k].obj])
    /\ r_index' = threads[k].obj
    /\ threads' = [threads EXCEPT ![k].obj = NoObj, ![k].pc = "stamp"]
    /\ heap' = Collect(heap, r_index', threads')
    /\ UNCHANGED <<store, config, auto_refresh, has_retriever,
                   last_built_at, now, auto_builds, last_call, request>>

\* line 412
Stamp(k) ==
    /\ threads[k].pc = "stamp"
    /\ last_built_at' = now
    /\ threads' = [threads EXCEPT ![k].pc = AfterRefresh(threads[k])]
    /\ UNCHANGED <<store, config, auto_refresh, has_retriever, heap, r_index,
                   now, auto_builds, last_call, request>>

\* lines 419-421 and 447: the local variable index
ReturnIndex(k) ==
    /\ threads[k].pc = "return_index"
    /\ threads' = [threads EXCEPT ![k].ref = r_index, ![k].pc = "read_nodes"]
    /\ UNCHANGED <<store, config, auto_refresh, has_retriever, heap, r_index,
                   last_built_at, now, auto_builds, last_call, request>>

\* what a part of retrieve sees of the object: its identity, how far its
\* constructor is, and how many nodes that part of it holds
Observed(o, part) ==
    LET ix == heap[o]
    IN  [obj |-> o, phase |-> ix.phase,
         size |-> CASE part = "read_nodes" -> num_nodes(ix)
                    [] part = "read_matrix" -> Len(ix.embedding_matrix)
                    [] part = "read_graph" -> Cardinality(DOMAIN ix.adj)
                    [] OTHER -> Len(ix.nodes)]

AfterRead(part, size) ==
    CASE part = "read_nodes" -> IF size = 0 THEN "return" ELSE "read_matrix"
      [] part = "read_matrix" -> "read_graph"
      [] part = "read_graph" -> "read_records"
      [] OTHER -> "return"

\* retrieve reads the node count (448), the matrix (451-452), the graph
\* (463) and the node records (505-522) through its local variable
Read(k) ==
    /\ threads[k].pc \in {"read_nodes", "read_matrix", "read_graph", "read_records"}
    /\ LET ob == Observed(threads[k].ref, threads[k].pc)
       IN  threads' = [threads EXCEPT ![k].seen = @ \cup {ob},
                                      ![k].pc = AfterRead(threads[k].pc, ob.size)]
    /\ UNCHANGED <<store, config, auto_refresh, has_retriever, heap, r_index,
                   last_built_at, now, auto_builds, last_call, request>>

\* the call returns and its locals go away
Return(k) ==
    /\ threads[k].pc = "return"
    /\ threads' = [threads EXCEPT ![k] = [IdleThread EXCEPT !.pc = "done"]]
    /\ heap' = Collect(heap, r_index, threads')
    /\ UNCHANGED <<store, config, auto_refresh, has_retriever, r_index,
                   last_built_at, now, auto_builds, last_call, request>>

\* a TTL of one clock tick, or none
ConcConfigs ==
    {c \in {[DefaultConfig EXCEPT !.cache_ttl_seconds = ttl] : ttl \in {NoTTL, 1}} :
        post_init(c)}

\* the collection when the calls begin: one document with an embedding
ConcStores == {<<d>> : d \in {x \in LifeDocs(1) : ~Falsy(x.embedding)}}

\* the writer adds one document with an embedding while the calls run
Write ==
    /\ store \in ConcStores
    /\ \E doc \in {d \in LifeDocs(Len(store) + 1) : ~Falsy(d.embedding)} : InsertDoc(doc)

\* a retriever nobody has used yet, or one whose index was built one tick
\* ago; the calls race within one tick of the clock
InitConc ==
    /\ store \in ConcStores
    /\ config \in ConcConfigs
    /\ auto_refresh = TRUE
    /\ has_retriever = TRUE
    /\ \/ heap = EmptyMap /\ r_index = NoObj /\ last_built_at = NoTime
       \/ heap = MapPut(EmptyMap, 1, GraphIndex(store)) /\ r_index = 1 /\ last_built_at = 0
    /\ now = 1
    /\ auto_builds = <<>>
    /\ last_call = NoCall
    /\ threads = [k \in 1..MaxThreads |-> IdleThread]
    /\ request = NoRequest

NextConc ==
    \/ Write
    \/ \E k \in DOMAIN threads, force \in BOOLEAN : Call(k, "refresh_index", force)
    \/ \E k \in DOMAIN threads : Call(k, "retrieve", FALSE)
    \/ \E k \in DOMAIN threads : CheckIndex(k)
    \/ \E k \in DOMAIN threads : CheckTTL(k)
    \/ \E k \in DOMAIN threads : Construct(k)
    \/ \E k \in DOMAIN threads : Build(k)
    \/ \E k \in DOMAIN threads : Publish(k)
    \/ \E k \in DOMAIN threads : Stamp(k)
    \/ \E k \in DOMAIN threads : ReturnIndex(k)
    \/ \E k \in DOMAIN threads : Read(k)
    \/ \E k \in DOMAIN threads : Return(k)

SpecConc == InitConc /\ [][NextConc]_vars

(***************************************************************************)
(* SearchManager.  A manager state M is the retriever state and whether    *)
(* the manager has created its retriever yet.                              *)
(***************************************************************************)
Manager == [R |-> Retriever, has_retriever |-> has_retriever]

\* the SearchManager.retriever property from manager state M: the retriever
\* state it hands out (the first access constructs the retriever, a later one
\* refreshes a stale index when auto_refresh is set)
manager_retriever(M, docs, cfg, au, t) ==
    IF ~M.has_retriever THEN M.R
    ELSE IF au THEN refresh_index(M.R, cfg, docs, FALSE, t)
    ELSE M.R

\* SearchManager.search at clock value t: the retriever property (lines
\* 53-64), then retrieve; an exception of retrieve is logged and raised again
search(M, docs, cfg, au, query, top_k, threshold, embedding, t) ==
    LET R1 == manager_retriever(M, docs, cfg, au, t)
    IN  {[M |-> [R |-> out.R, has_retriever |-> TRUE],
          raised |-> out.raised, result |-> out.result, trace |-> out.trace] :
            out \in retrieve(R1, docs, cfg, query, top_k, threshold, embedding, t)}

RECURSIVE BatchLoop(_, _, _, _, _, _, _, _, _)

\* a batch loop that stops at the first query whose search raises
BatchLoopAborts(acc, docs, cfg, au, queries, embeddings, top_k, threshold, t) ==
    IF queries = <<>> THEN {acc}
    ELSE UNION {
           IF out.raised # "none"
           THEN {[M |-> out.M,
                  results |-> MapPut(acc.results, Head(queries), <<>>),
                  raised_each |-> Append(acc.raised_each, out.raised)]}
           ELSE BatchLoop([M |-> out.M,
                           results |-> MapPut(acc.results, Head(queries), out.result),
                           raised_each |-> Append(acc.raised_each, out.raised)],
                          docs, cfg, au, Tail(queries), Tail(embeddings),
                          top_k, threshold, t) :
           out \in search(acc.M, docs, cfg, au, Head(queries), top_k, threshold,
                          Head(embeddings), t)}

\* the loop of batch_search (lines 115-121) over the queries still to run;
\* embeddings[i] is what the collaborator answers for the i-th of them
BatchLoop(acc, docs, cfg, au, queries, embeddings, top_k, threshold, t) ==
    IF queries = <<>> THEN {acc}
    ELSE UNION {
           BatchLoop([M |-> out.M,
                      results |-> MapPut(acc.results, Head(queries),
                                         IF out.raised = "none" THEN out.result ELSE <<>>),
                      raised_each |-> Append(acc.raised_each, out.raised)],
                     docs, cfg, au, Tail(queries), Tail(embeddings),
                     top_k, threshold, t) :
           out \in search(acc.M, docs, cfg, au, Head(queries), top_k, threshold,
                          Head(embeddings), t)}

\* SearchManager.batch_search: the dict it returns, and for the record what
\* each query's search raised
batch_search(M, docs, cfg, au, queries, embeddings, top_k, threshold, t) ==
    BatchLoop([M |-> M, results |-> EmptyMap, raised_each |-> <<>>],
              docs, cfg, au, queries, embeddings, top_k, threshold, t)

\* collection.find_one({"nodeid": node_id}): the position of the first match, or 0
find_one(docs, node_id) ==
    IF \E k \in 1..Len(docs) : docs[k].nodeid = node_id
    THEN CHOOSE k \in 1..Len(docs) :
            /\ docs[k].nodeid = node_id
            /\ \A j \in 1..(k - 1) : docs[j].nodeid # node_id
    ELSE 0

\* the items of a result list that line 138 keeps
RECURSIVE FilterSelf(_, _, _)
FilterSelf(items, node_id, exclude_self) ==
    IF items = <<>> THEN <<>>
    ELSE IF ~exclude_self \/ Head(items).nodeid # node_id
         THEN <<Head(items)>> \o FilterSelf(Tail(items), node_id, exclude_self)
         ELSE FilterSelf(Tail(items), node_id, exclude_self)

\* a variant that asks search for top_k records only
SimilarFetch(top_k, exclude_self) == top_k

\* line 137: how many records get_similar_nodes asks search for
SimilarTopK(top_k, exclude_self) == top_k + (IF exclude_self THEN 1 ELSE 0)

\* "\n".join(part for part in parts if part)
RECURSIVE JoinParts(_)
JoinParts(parts) ==
    IF parts = <<>> THEN <<>>
    ELSE IF Head(parts) = <<>> THEN JoinParts(Tail(parts))
    ELSE IF JoinParts(Tail(parts)) = <<>> THEN Head(parts)
    ELSE Head(parts) \o <<"\n">> \o JoinParts(Tail(parts))

\* SearchManager.get_similar_nodes
get_similar_nodes(M, docs, cfg, au, node_id, top_k, exclude_self, embedding, t) ==
    LET k == find_one(docs, node_id)
        query == IF k = 0 THEN <<>>
                 ELSE Strip(Query(JoinParts(<<docs[k].text, docs[k].notes,
                                              docs[k].richText>>)))
    IN  IF k = 0 \/ query = <<>>
        THEN {[M |-> M, raised |-> "none", result |-> <<>>, trace |-> NoTrace,
               searched |-> FALSE]}
        ELSE {[M |-> out.M, raised |-> out.raised,
               result |-> IF out.raised # "none" THEN <<>>
                          ELSE TopResults(FilterSelf(out.result, node_id, exclude_self),
                                          top_k),
               trace |-> out.trace, searched |-> TRUE] :
                out \in search(M, docs, cfg, au, Query(query),
                               SimilarTopK(top_k, exclude_self), -Unit, embedding, t)}

\* SearchManager.get_search_stats
get_search_stats(M, docs, cfg, au, t) ==
    LET total_nodes == Len(docs)
        R2 == ensure_index(manager_retriever(M, docs, cfg, au, t), cfg, docs, t)
        index_stats == R2.heap[R2.index].stats
        nodes_with_embeddings == index_stats.total_nodes
    IN  [M |-> [R |-> R2, has_retriever |-> TRUE],
         stats |-> [total_nodes |-> total_nodes,
                    nodes_with_embeddings |-> nodes_with_embeddings,
                    nodes_without_embeddings |->
                        Max(total_nodes - nodes_with_embeddings, 0),
                    indexed_edges |-> index_stats.total_edges,
                    embedding_dim |-> index_stats.embedding_dim,
                    graph_last_built_at |-> R2.last_built_at]]

(***************************************************************************)
(* SpecFacade: batch_search and get_similar_nodes as functions of the      *)
(* store and the arguments; Init draws the store, the action makes one     *)
(* call on a manager that has not created its retriever yet.               *)
(***************************************************************************)
\* the embedding collaborator's answer for a query: it fails on "x" and
\* answers "m" with a vector of another length
EmbeddingOf(query) ==
    IF query = Query(<<"x">>) THEN EmbedRaises
    ELSE IF query = Query(<<"m">>) THEN EmbedList(<<1>>)
    ELSE EmbedList(<<1, 1>>)

BatchQueries == {Query(<<"q">>), Query(<<"x">>), Query(<<"m">>), Query(<<" ">>)}

RECURSIVE BatchesOfLen(_)
BatchesOfLen(n) ==
    IF n = 0 THEN {<<>>}
    ELSE {Append(b, q) : b \in BatchesOfLen(n - 1), q \in BatchQueries}

Batches == UNION {BatchesOfLen(n) : n \in 1..MaxBatch}

\* document i with or without an embedding; the second document has only
\* blank notes, the others have a text
FacadeDocs(i) ==
    {[Doc(i, e, IF i > 1 THEN Oid(i - 1) ELSE None, <<>>)
        EXCEPT !.text = IF i = 2 THEN <<>> ELSE <<"t">>,
               !.notes = IF i = 2 THEN <<" ">> ELSE <<>>] :
        e \in {NoEmbedding, Vec(StoredVectors[(i % 3) + 1])}}

\* the stores that hold some of the first n documents, in the order of their ids
RECURSIVE FacadeStoresUpTo(_)
FacadeStoresUpTo(n) ==
    IF n = 0 THEN {<<>>}
    ELSE FacadeStoresUpTo(n - 1)
         \cup {Append(st, d) : st \in FacadeStoresUpTo(n - 1), d \in FacadeDocs(n)}

\* the node ids a caller asks about: those of the documents and an unknown one
NodeIds == {<<"str", i>> : i \in 0..MaxDocs}

\* SearchManager.batch_search
BatchSearch(queries, top_k, threshold) ==
    /\ UNCHANGED <<store, config, auto_refresh, now, threads, request>>
    /\ has_retriever' = TRUE
    /\ \E out \in batch_search(Manager, store, config, auto_refresh, queries,
                               [i \in 1..Len(queries) |-> EmbeddingOf(queries[i])],
                               top_k, threshold, now) :
          /\ Commit(out.M.R)
          /\ last_call' = [op |-> "batch_search", queries |-> queries,
                           top_k |-> top_k, raised |-> "none",
                           results |-> out.results,
                           raised_each |-> out.raised_each]

\* SearchManager.get_similar_nodes
GetSimilarNodes(node_id, top_k, exclude_self, embedding) ==
    /\ UNCHANGED <<store, config, auto_refresh, now, threads, request>>
    /\ \E out \in get_similar_nodes(Manager, store, config, auto_refresh, node_id,
                                    top_k, exclude_self, embedding, now) :
          /\ has_retriever' = out.M.has_retriever
          /\ Commit(out.M.R)
          /\ last_call' = [op |-> "get_similar_nodes", node_id |-> node_id,
                           top_k |-> top_k, exclude_self |-> exclude_self,
                           found |-> find_one(store, node_id),
                           searched |-> out.searched, raised |-> out.raised,
                           result |-> out.result, trace |-> out.trace]

InitFacade ==
    /\ store \in FacadeStoresUpTo(MaxDocs)
    /\ config = DefaultConfig
    /\ request = NoRequest
    /\ auto_refresh = TRUE
    /\ has_retriever = FALSE
    /\ heap = EmptyMap
    /\ r_index = NoObj
    /\ last_built_at = NoTime
    /\ now = 0
    /\ auto_builds = <<>>
    /\ last_call = NoCall
    /\ threads = <<>>

\* the caller makes a batch call, once
BatchRequest ==
    /\ last_call = NoCall
    /\ \E queries \in Batches : BatchSearch(queries, 1, 0)

\* the caller asks for similar nodes, once
SimilarRequest ==
    /\ last_call = NoCall
    /\ \E node_id \in NodeIds : \E top_k \in 1..MaxTopK : \E exclude_self \in BOOLEAN :
          GetSimilarNodes(node_id, top_k, exclude_self, EmbedList(<<1, 1>>))

NextFacade ==
    \/ BatchRequest
    \/ SimilarRequest

SpecFacade == InitFacade /\ [][NextFacade]_vars

(***************************************************************************)
(* SpecStats: searches and statistics over a store that gains and loses    *)
(* documents between the calls.                                            *)
(***************************************************************************)
\* SearchManager.get_search_stats
GetSearchStats ==
    /\ UNCHANGED <<store, config, auto_refresh, now, threads, request>>
    /\ has_retriever' = TRUE
    /\ LET out == get_search_stats(Manager, store, config, auto_refresh, now)
       IN  /\ Commit(out.M.R)
           /\ last_call' = [op |-> "get_search_stats", docs |-> store,
                            index_before |-> r_index, stats |-> out.stats]

\* a writer adds a document to the collection; a new document gets a later
\* id than every document there
InsertNode(doc) ==
    /\ Len(store) < MaxDocs
    /\ \A k \in 1..Len(store) : store[k].id[2] < doc.id[2]
    /\ store' = Append(store, doc)
    /\ UNCHANGED <<config, auto_refresh, has_retriever, heap, r_index,
                   last_built_at, now, auto_builds, last_call, threads, request>>

\* a writer removes the k-th document from the collection; the newest one
\* stays, so that no id is handed out twice
DeleteNode(k) ==
    /\ k \in 1..(Len(store) - 1)
    /\ store' = SubSeq(store, 1, k - 1) \o SubSeq(store, k + 1, Len(store))
    /\ UNCHANGED <<config, auto_refresh, has_retriever, heap, r_index,
                   last_built_at, now, auto_builds, last_call, threads, request>>

InitStats ==
    /\ store = <<>>
    /\ config = DefaultConfig
    /\ request = NoRequest
    /\ auto_refresh = TRUE
    /\ has_retriever = FALSE
    /\ heap = EmptyMap
    /\ r_index = NoObj
    /\ last_built_at = NoTime
    /\ now = 0
    /\ auto_builds = <<>>
    /\ last_call = NoCall
    /\ threads = <<>>

NextStats ==
    \/ \E i \in 1..MaxDocs : \E doc \in FacadeDocs(i) : InsertNode(doc)
    \/ \E k \in 1..MaxDocs : DeleteNode(k)
    \/ Search(Query(<<"q">>), MaxDocs, -Unit, EmbedList(<<1, 1>>), 0)
    \/ GetSearchStats

SpecStats == InitStats /\ [][NextStats]_vars

(***************************************************************************)
(* SpecGraph: the build and the queries of GraphIndex as functions of the  *)
(* store; Init draws the store, the retriever builds its index once and    *)
(* the caller then asks the index one question.                            *)
(***************************************************************************)
\* an id that no document of the store has
UnknownId == Oid(0)

\* the first document: its parent is absent, itself or unknown; it names the
\* second and third documents as children in either order, and may link to
\* the second by its node id
FirstDocs ==
    {[Doc(1, Vec(<<1, 0>>), p, l) EXCEPT !.children = c] :
        p \in {None, Oid(1), UnknownId},
        c \in {<<>>, <<Oid(2), Oid(3)>>, <<Oid(3), Oid(2)>>},
        l \in {<<>>, << <<"str", 2>> >>}}

\* the second document may have no embedding; its parent is absent or the
\* first document, and it may link to the third by the string of its id
SecondDocs ==
    {Doc(2, e, p, l) :
        e \in {NoEmbedding, Vec(<<1, 1>>)},
        p \in {None, Oid(1)},
        l \in {<<>>, << <<"hex", 3>> >>}}

\* a later document: its parent is absent or the document before it, and it
\* may link to the first
LaterDocs(i) ==
    {Doc(i, Vec(<<3, 4>>), p, l) :
        p \in {None, Oid(i - 1)},
        l \in {<<>>, <<Oid(1)>>}}

GraphDocs(i) == IF i = 1 THEN FirstDocs ELSE IF i = 2 THEN SecondDocs ELSE LaterDocs(i)

RECURSIVE GraphStoresOfLen(_)
GraphStoresOfLen(n) ==
    IF n = 0 THEN {<<>>}
    ELSE {Append(st, d) : st \in GraphStoresOfLen(n - 1), d \in GraphDocs(n)}

GraphStores == UNION {GraphStoresOfLen(n) : n \in 0..MaxDocs}

InitGraph ==
    /\ store \in GraphStores
    /\ config = DefaultConfig
    /\ request = NoRequest
    /\ auto_refresh = TRUE
    /\ has_retriever = TRUE
    /\ heap = EmptyMap
    /\ r_index = NoObj
    /\ last_built_at = NoTime
    /\ now = 0
    /\ auto_builds = <<>>
    /\ last_call = NoCall
    /\ threads = <<>>

\* the retriever builds its index
BuildGraph ==
    /\ r_index = NoObj
    /\ RefreshIndex(TRUE)

\* the index is built and nothing has been asked yet
Built == r_index # NoObj /\ last_call.op = "refresh_index"

\* GraphIndex.get_node
GetNode(index) ==
    /\ Built
    /\ last_call' = [op |-> "get_node", index |-> index,
                     raised |-> get_node_call(heap[r_index], index).raised,
                     node |-> get_node_call(heap[r_index], index).node]
    /\ UNCHANGED <<store, config, auto_refresh, has_retriever, heap, r_index,
                   last_built_at, now, auto_builds, threads, request>>

\* GraphIndex.sorted_neighbors
SortedNeighbors(index) ==
    /\ Built
    /\ index \in Indices(heap[r_index])
    /\ last_call' = [op |-> "sorted_neighbors", index |-> index,
                     neighbors |-> sorted_neighbors(heap[r_index], index)]
    /\ UNCHANGED <<store, config, auto_refresh, has_retriever, heap, r_index,
                   last_built_at, now, auto_builds, threads, request>>

\* GraphIndex.shortest_path_lengths
ShortestPathLengths(source_index, cutoff) ==
    /\ Built
    /\ source_index \in Indices(heap[r_index])
    /\ last_call' = [op |-> "shortest_path_lengths", source_index |-> source_index,
                     cutoff |-> cutoff,
                     lengths |-> shortest_path_lengths(heap[r_index], source_index, cutoff)]
    /\ UNCHANGED <<store, config, auto_refresh, has_retriever, heap, r_index,
                   last_built_at, now, auto_builds, threads, request>>

NextGraph ==
    \/ BuildGraph
    \/ \E index \in (-(MaxDocs + 1))..MaxDocs : GetNode(index)
    \/ \E index \in 0..(MaxDocs - 1) : SortedNeighbors(index)
    \/ \E index \in 0..(MaxDocs - 1) : \E cutoff \in 0..MaxDocs :
          ShortestPathLengths(index, cutoff)

SpecGraph == InitGraph /\ [][NextGraph]_vars

(***************************************************************************)
(* SpecBuild: the build over stores whose documents have no embedding, an  *)
(* empty one, a nested one, or vectors of two lengths, with or without a   *)
(* node id of their own.                                                   *)
(***************************************************************************)
BuildEmbeddings ==
    {NoEmbedding, Vec(<<>>), Nested(<< <<1, 0>> >>),
     Vec(<<1, 0>>), Vec(<<3, 4>>), Vec(<<1, 1, 1>>)}

\* document i refers to the document before it
BuildDocs(i) ==
    {[Doc(i, e, IF i > 1 THEN Oid(i - 1) ELSE None, <<>>) EXCEPT !.nodeid = n] :
        e \in BuildEmbeddings, n \in {None, <<"str", i>>}}

RECURSIVE BuildStoresOfLen(_)
BuildStoresOfLen(n) ==
    IF n = 0 THEN {<<>>}
    ELSE {Append(st, d) : st \in BuildStoresOfLen(n - 1), d \in BuildDocs(n)}

InitBuild ==
    /\ store \in UNION {BuildStoresOfLen(n) : n \in 0..MaxDocs}
    /\ config = DefaultConfig
    /\ request = NoRequest
    /\ auto_refresh = TRUE
    /\ has_retriever = TRUE
    /\ heap = EmptyMap
    /\ r_index = NoObj
    /\ last_built_at = NoTime
    /\ now = 0
    /\ auto_builds = <<>>
    /\ last_call = NoCall
    /\ threads = <<>>

NextBuild ==
    \/ BuildGraph
    \/ \E index \in 0..(MaxDocs - 1) : GetNode(index)

SpecBuild == InitBuild /\ [][NextBuild]_vars

(***************************************************************************)
(* Properties of retrieve.  They read the last completed call; the index   *)
(* it ran on is the one the retriever holds when it returns.               *)
(***************************************************************************)
Retrieved == last_call.op \in {"retrieve", "search"} /\ last_call.raised = "none"

UsedIndex == heap[r_index]

\* the position in the index of the node a result record is about
NodeOf(rec) == UsedIndex.id_to_index[coerce_object_id(rec.id)]

\* the node's local similarity: the dot product of its unit vector with the unit query vector
LocalSimilarity(i) ==
    Dot(UsedIndex.embedding_matrix[i + 1], embed_query(last_call.embedding))

Results == last_call.result

\* the fusion of lines 476-479 before it is clamped, from a record's own context
UnclampedFusion(rec) ==
    LET ctx == rec.graph_context
        hop_factor == IF config.hops > 0 THEN Pow(config.hop_decay, ctx.hop_distance) ELSE Unit
    IN  Mul(config.node_weight, ctx.local_similarity)
        + Mul(Mul(config.subgraph_weight, ctx.subgraph_score), hop_factor)

\* the local similarities of the call all lie in [-1, 1]
SimilaritiesInRange ==
    \A i \in Indices(UsedIndex) : -Unit <= LocalSimilarity(i) /\ LocalSimilarity(i) <= Unit

\* C1: every record retrieve returns has a score at least the local similarity
\* of its node, and that similarity is the local_similarity its context reports.
C1_SimilarityFloor ==
    Retrieved =>
        \A k \in 1..Len(Results) :
            /\ Results[k].score >= LocalSimilarity(NodeOf(Results[k]))
            /\ Results[k].graph_context.local_similarity = LocalSimilarity(NodeOf(Results[k]))

\* a returned record whose fusion came out below its local similarity and was raised to it
C1_Witness ==
    /\ Retrieved /\ Results # <<>> /\ SimilaritiesInRange
    /\ \E k \in 1..Len(Results) :
          /\ Clamp(UnclampedFusion(Results[k])) < LocalSimilarity(NodeOf(Results[k]))
          /\ Results[k].score = LocalSimilarity(NodeOf(Results[k]))

\* C2: when the local similarities lie in [-1, 1], every returned score lies in [-1, 1].
C2_ScoreBounds ==
    (Retrieved /\ Results # <<>> /\ SimilaritiesInRange) =>
        \A k \in 1..Len(Results) : -Unit <= Results[k].score /\ Results[k].score <= Unit

\* a returned score the clamp cut down to 1
C2_Witness ==
    /\ Retrieved /\ Results # <<>> /\ SimilaritiesInRange
    /\ \E k \in 1..Len(Results) :
          UnclampedFusion(Results[k]) > Unit /\ Results[k].score = Unit

\* C3: no returned record has a score below the threshold of the call.
C3_ThresholdFilter ==
    Retrieved => \A k \in 1..Len(Results) : ~(Results[k].score < last_call.threshold)

\* the candidates of the run whose final score meets the threshold of the call
MeetingThreshold ==
    {i \in last_call.trace.candidate_indices :
        last_call.trace.final_scores[i] >= last_call.threshold}

\* a call whose threshold let some candidates through and stopped others
C3_Witness ==
    /\ Retrieved /\ Results # <<>>
    /\ MeetingThreshold # last_call.trace.candidate_indices
    /\ \E i \in last_call.trace.candidate_indices :
          last_call.trace.final_scores[i] < last_call.threshold

\* C4: the returned list is no longer than min(top_k, candidates meeting the
\* threshold) and holds no node twice.
C4_TopKCap ==
    Retrieved =>
        /\ Len(Results) <= Min(last_call.top_k, Cardinality(MeetingThreshold))
        /\ \A j, k \in 1..Len(Results) : Results[j].id = Results[k].id => j = k

\* more candidates met the threshold than top_k, and top_k records came back
C4_Witness ==
    /\ Retrieved
    /\ Cardinality(MeetingThreshold) > last_call.top_k
    /\ Len(Results) = last_call.top_k

(***************************************************************************)
(* Properties of the index lifecycle, under Spec.                          *)
(***************************************************************************)
Refreshed == last_call.op = "refresh_index"

\* the call published a new index object
Rebuilt == r_index # last_call.index_before

Elapsed == last_call.at - last_call.built_before

\* what a refresh call leaves behind: a new object stamped with the time of
\* the call exactly when it should rebuild, and nothing changed otherwise
RefreshOutcome(should_rebuild) ==
    /\ Rebuilt <=> should_rebuild
    /\ Rebuilt => last_built_at = last_call.at
    /\ ~Rebuilt => last_built_at = last_call.built_before

\* C5 as amended: refresh_index(force) rebuilds and stamps the build exactly
\* when force is true, or no index exists, or a TTL is configured and the time
\* since the last build is at least the TTL; otherwise the published index
\* object and the build timestamp are unchanged.
C5_RefreshRebuildsIff ==
    Refreshed =>
        RefreshOutcome(\/ last_call.force
                       \/ last_call.index_before = NoObj
                       \/ /\ config.cache_ttl_seconds # NoTTL
                          /\ Elapsed >= config.cache_ttl_seconds)

\* C5 as stated: the same with a rebuild only when the time since the last
\* build exceeds the TTL.
C5_RebuildsOnlyPastTTL ==
    Refreshed =>
        RefreshOutcome(\/ last_call.force
                       \/ last_call.index_before = NoObj
                       \/ /\ config.cache_ttl_seconds # NoTTL
                          /\ Elapsed > config.cache_ttl_seconds)

\* an unforced refresh of an existing index exactly one TTL after its build: it rebuilt
C5_Witness ==
    /\ Refreshed /\ ~last_call.force /\ last_call.index_before # NoObj
    /\ config.cache_ttl_seconds # NoTTL
    /\ Elapsed = config.cache_ttl_seconds
    /\ Rebuilt /\ last_built_at = last_call.at

\* C6: with a TTL configured, two successive rebuilds made without force are
\* at least the TTL apart.
C6_OncePerWindow ==
    (config.cache_ttl_seconds # NoTTL /\ Len(auto_builds) = 2) =>
        auto_builds[2] - auto_builds[1] >= config.cache_ttl_seconds

\* a search rebuilt the stale index one TTL after the previous unforced rebuild
C6_Witness ==
    /\ config.cache_ttl_seconds # NoTTL
    /\ Len(auto_builds) = 2
    /\ last_call.op = "search"
    /\ auto_builds[2] = now
    /\ auto_builds[2] - auto_builds[1] = config.cache_ttl_seconds

\* the documents of the store the scan keeps: those with an embedding
Eligible == {k \in 1..Len(store) : ~Falsy(store[k].embedding)}

EmptyIndex == r_index # NoObj /\ num_nodes(UsedIndex) = 0

\* C10: an index built from a store with no eligible document has no nodes;
\* on an index without nodes retrieve returns [] without raising for every
\* query that is non-empty after trimming, whatever the embedding collaborator
\* would do, and get_index_stats reports zero nodes and zero edges.
C10_EmptyIndex ==
    /\ (r_index # NoObj /\ Eligible = {}) => EmptyIndex
    /\ (EmptyIndex /\ last_call.op \in {"retrieve", "search"}
           /\ Strip(last_call.query) # <<>>) =>
          (last_call.raised = "none" /\ last_call.result = <<>>)
    /\ (EmptyIndex /\ last_call.op = "get_index_stats") =>
          (last_call.total_nodes = 0 /\ last_call.total_edges = 0)

\* a store holding only a document without embedding, and a retrieve whose
\* collaborator would raise: it returned []
C10_Witness ==
    /\ store # <<>> /\ Eligible = {} /\ EmptyIndex
    /\ last_call.op = "retrieve"
    /\ last_call.embedding = EmbedRaises
    /\ last_call.raised = "none" /\ last_call.result = <<>>

(***************************************************************************)
(* Properties of concurrent calls, under SpecConc.                         *)
(***************************************************************************)
Reading == {"read_nodes", "read_matrix", "read_graph", "read_records"}

\* C7: everything one retrieve call reads comes from one GraphIndex object
\* whose constructor had finished, with one node count throughout, whatever
\* rebuilds run beside it.
C7_AtomicPublication ==
    \A k \in DOMAIN threads :
        /\ \A a, b \in threads[k].seen :
              a.phase = "built" /\ a.obj = b.obj /\ a.size = b.size
        /\ threads[k].pc \in Reading => heap[threads[k].ref].phase = "built"

\* a retrieve between its reads still holds the old index while another
\* thread has published a new one with more nodes
C7_Witness ==
    \E k \in DOMAIN threads :
        /\ threads[k].pc = "read_records"
        /\ threads[k].seen # {}
        /\ r_index # threads[k].ref
        /\ num_nodes(heap[r_index]) > num_nodes(heap[threads[k].ref])

\* the threads that have decided to rebuild and have not yet published their index
InFlight == {k \in DOMAIN threads : threads[k].pc \in {"construct", "build"}}

\* C8: at most one rebuild of the index is in flight at any time.
C8_SingleFlight == Cardinality(InFlight) <= 1

(***************************************************************************)
(* Errors of retrieve, under Spec.                                         *)
(***************************************************************************)
Retrieval == last_call.op \in {"retrieve", "search"}

\* the collaborator's answer is nothing, not one-dimensional, or of another
\* length than the vectors of the index
BadEmbedding(embedding, ix) ==
    \/ embedding.kind \in {"none", "nested"}
    \/ embedding.kind = "list" /\ Len(embedding.v) # ix.embedding_dim

GoodEmbedding(embedding, ix) ==
    embedding.kind = "list" /\ Len(embedding.v) = ix.embedding_dim

\* the last call was a retrieve whose embedding step failed
EmbeddingFailed == Retrieval /\ last_call.raised = "RuntimeError"

\* the index the retriever held when the call began was still fresh when
\* the call made its freshness check
WasFresh ==
    /\ last_call.index_before # NoObj
    /\ \/ config.cache_ttl_seconds = NoTTL
       \/ last_call.at - last_call.built_before < config.cache_ttl_seconds

CacheUntouched ==
    r_index = last_call.index_before /\ last_built_at = last_call.built_before

\* the step is a direct retrieve with a usable embedding, made right after
\* a retrieve whose embedding failed
RetryStep ==
    /\ EmbeddingFailed
    /\ last_call' # last_call
    /\ last_call'.op = "retrieve"
    /\ Strip(last_call'.query) # <<>>
    /\ GoodEmbedding(last_call'.embedding, UsedIndex)

\* C11 as amended: on a non-empty index a retrieve whose collaborator returns
\* nothing, a vector that is not one-dimensional or a vector of the wrong
\* length raises and returns no results; the cached index and build
\* timestamp are unchanged when the index was fresh at the start of the call
\* (a stale index is rebuilt before the embedding is asked for, and stays);
\* and a later retrieve with a valid embedding succeeds, against the same
\* index when the clock has not moved.
C11_EmbeddingFailure ==
    /\ [](/\ (Retrieval /\ Strip(last_call.query) # <<>> /\ num_nodes(UsedIndex) > 0
                /\ BadEmbedding(last_call.embedding, UsedIndex))
             => (last_call.raised = "RuntimeError" /\ last_call.result = <<>>)
          /\ (EmbeddingFailed /\ WasFresh) => CacheUntouched)
    /\ [][RetryStep => /\ last_call'.raised = "none"
                       /\ now = last_call.at => r_index' = r_index]_vars

\* C11 as stated: whenever the embedding step fails on an existing index,
\* the cached index and the build timestamp are those from before the call.
C11_FailureLeavesCache ==
    (EmbeddingFailed /\ last_call.index_before # NoObj) => CacheUntouched

\* a retrieve on a fresh, non-empty index got a vector of the wrong length:
\* it raised, and index and timestamp are as before
C11_Witness ==
    /\ last_call.op = "retrieve" /\ last_call.raised = "RuntimeError"
    /\ last_call.embedding.kind = "list"
    /\ num_nodes(UsedIndex) > 0
    /\ Len(last_call.embedding.v) # UsedIndex.embedding_dim
    /\ WasFresh /\ CacheUntouched

\* C12: retrieve with a query that is None, empty or only whitespace fails
\* with ValueError and returns no results, and the embedding collaborator
\* has not been invoked.
C12_EmptyQuery ==
    (last_call.op = "retrieve" /\ Strip(last_call.query) = <<>>) =>
        /\ last_call.raised = "ValueError"
        /\ last_call.result = <<>>
        /\ ~last_call.embedded

\* a whitespace query against a non-empty index, with a collaborator whose
\* answer retrieve would reject: the call failed with ValueError
C12_Witness ==
    /\ last_call.op = "retrieve"
    /\ last_call.query = Query(<<" ">>)
    /\ r_index # NoObj /\ num_nodes(UsedIndex) > 0
    /\ BadEmbedding(last_call.embedding, UsedIndex)
    /\ last_call.raised = "ValueError" /\ ~last_call.embedded

(***************************************************************************)
(* GragConfig, under SpecConfig.                                           *)
(***************************************************************************)
\* the field is a number within the closed interval
Within(x, lo, hi) == x # NaN /\ lo <= x /\ x <= hi

\* the invariants of a GragConfig
ValidConfig(c) ==
    /\ c.hops >= 0
    /\ c.seed_top_k > 0
    /\ c.candidate_multiplier # NaN /\ c.candidate_multiplier >= Unit
    /\ Within(c.node_weight, 0, Unit)
    /\ Within(c.subgraph_weight, 0, Unit)
    /\ ~(c.node_weight = 0 /\ c.subgraph_weight = 0)
    /\ c.hop_decay # NaN /\ 0 < c.hop_decay /\ c.hop_decay <= Unit
    /\ c.max_context_neighbors >= 0

\* C13: the construction of a GragConfig succeeds exactly when its arguments
\* satisfy the invariants, and the instance then holds the arguments unchanged.
C13_ConfigValidation ==
    last_call.op = "GragConfig" =>
        /\ last_call.raised = "none" <=> ValidConfig(last_call.arguments)
        /\ last_call.raised = "none" => config = last_call.arguments
        /\ last_call.raised # "none" => last_call.raised = "ValueError"

(***************************************************************************)
(* Properties of the SearchManager operations, under SpecFacade.           *)
(***************************************************************************)
\* the last position of the batch that holds the same query as position i
LastOf(queries, i) ==
    CHOOSE j \in i..Len(queries) :
        /\ queries[j] = queries[i]
        /\ \A k \in (j + 1)..Len(queries) : queries[k] # queries[i]

\* what search must raise for a query, given the node count of the index in use
ExpectedRaise(query, nodes) ==
    IF Strip(query) = <<>> THEN "ValueError"
    ELSE IF nodes = 0 THEN "none"
    ELSE IF query = Query(<<"x">>) THEN "Exception"
    ELSE IF query = Query(<<"m">>) THEN "RuntimeError"
    ELSE "none"

IndexedNodes == IF r_index = NoObj THEN 0 ELSE num_nodes(UsedIndex)

\* C14: batch_search never raises for a failure of one query; the mapping it
\* returns has an entry for exactly the queries given; every query is
\* searched, in order, also after an earlier one failed; a query whose search
\* raised (blank query, failing embedding, wrong dimension) maps to the empty
\* list, and a query whose search succeeded maps to that search's records.
C14_BatchIsolation ==
    last_call.op = "batch_search" =>
        LET queries == last_call.queries
        IN  /\ last_call.raised = "none"
            /\ DOMAIN last_call.results = {queries[i] : i \in 1..Len(queries)}
            /\ Len(last_call.raised_each) = Len(queries)
            /\ \A i \in 1..Len(queries) :
                  /\ last_call.raised_each[i] = ExpectedRaise(queries[i], IndexedNodes)
                  /\ last_call.raised_each[LastOf(queries, i)] # "none"
                        => last_call.results[queries[i]] = <<>>
                  /\ last_call.raised_each[LastOf(queries, i)] = "none"
                        => /\ Len(last_call.results[queries[i]]) = Min(1, IndexedNodes)
                           /\ \A k \in 1..Len(last_call.results[queries[i]]) :
                                 \E n \in 1..Len(store) :
                                    /\ store[n].nodeid = last_call.results[queries[i]][k].nodeid
                                    /\ ~Falsy(store[n].embedding)

\* a batch whose first query failed and whose second query found a record
C14_Witness ==
    /\ last_call.op = "batch_search"
    /\ Len(last_call.queries) = 2
    /\ last_call.raised_each[1] # "none"
    /\ last_call.raised_each[2] = "none"
    /\ last_call.results[last_call.queries[1]] = <<>>
    /\ last_call.results[last_call.queries[2]] # <<>>

\* some part of the document holds a character that is not blank
HasText(doc) ==
    \E part \in {doc.text, doc.notes, doc.richText} :
        \E k \in 1..Len(part) : part[k] # " "

\* the indexed documents of the store, without those named node_id when
\* exclude_self is set: with the default configuration every indexed document
\* is a seed of the inner search and so a candidate
Available(node_id, exclude_self) ==
    {n \in 1..Len(store) :
        /\ ~Falsy(store[n].embedding)
        /\ ~(exclude_self /\ store[n].nodeid = node_id)}

\* C15: get_similar_nodes returns [] without raising and without a search
\* when no document has the node id or the document has no text; otherwise it
\* returns at most top_k records, none of them the source node when
\* exclude_self is set, and as many as min(top_k, the other candidates).
C15_SimilarNodes ==
    last_call.op = "get_similar_nodes" =>
        IF last_call.found = 0 \/ ~HasText(store[last_call.found])
        THEN /\ last_call.raised = "none"
             /\ last_call.result = <<>>
             /\ ~last_call.searched
        ELSE /\ last_call.searched
             /\ last_call.raised = "none"
             /\ Len(last_call.result) <= last_call.top_k
             /\ last_call.exclude_self =>
                   \A k \in 1..Len(last_call.result) :
                      last_call.result[k].nodeid # last_call.node_id
             /\ Len(last_call.result) =
                   Min(last_call.top_k,
                       Cardinality(Available(last_call.node_id, last_call.exclude_self)))
             /\ \A k \in 1..Len(last_call.result) :
                   \E n \in Available(last_call.node_id, last_call.exclude_self) :
                      store[n].nodeid = last_call.result[k].nodeid

\* the source node is indexed and excluded, and top_k other records come back
C15_Witness ==
    /\ last_call.op = "get_similar_nodes"
    /\ last_call.found # 0
    /\ last_call.exclude_self
    /\ ~Falsy(store[last_call.found].embedding)
    /\ last_call.top_k = MaxTopK
    /\ Len(last_call.result) = last_call.top_k

(***************************************************************************)
(* Properties of the statistics, under SpecStats.                          *)
(***************************************************************************)
\* the documents of a store that have no embedding
WithoutEmbedding(docs) == {n \in 1..Len(docs) : Falsy(docs[n].embedding)}

\* no document of the store without an embedding has an index position in an
\* index of the heap or a record in the last search result
NeverIndexed ==
    /\ \A o \in DOMAIN heap : \A n \in WithoutEmbedding(store) :
          /\ store[n].id \notin DOMAIN heap[o].id_to_index
          /\ \A k \in 1..Len(heap[o].nodes) : heap[o].nodes[k].object_id # store[n].id
    /\ Retrieval =>
          \A k \in 1..Len(last_call.result) : \A n \in WithoutEmbedding(store) :
             store[n].nodeid # last_call.result[k].nodeid

\* C16: a store document without an embedding never has an index position
\* and never appears in a search result, and get_search_stats counts it among
\* the not-indexed documents: nodes_without_embeddings is the number of store
\* documents minus the number of indexed documents, also when the store has
\* changed since the cached index was built.
C16_UnindexedCounted ==
    /\ NeverIndexed
    /\ last_call.op = "get_search_stats" =>
          /\ last_call.stats.total_nodes = Len(last_call.docs)
          /\ last_call.stats.nodes_without_embeddings =
                last_call.stats.total_nodes - last_call.stats.nodes_with_embeddings
          /\ Cardinality(WithoutEmbedding(last_call.docs))
                <= last_call.stats.nodes_without_embeddings

(***************************************************************************)
(* Properties of the graph index, under SpecGraph.                         *)
(***************************************************************************)
\* C17: get_node(index) returns the node whose index field is the argument
\* when 0 <= index < node count, and raises an out-of-range error for every
\* other integer, the negative ones included.
C17_GetNodeRange ==
    last_call.op = "get_node" =>
        IF 0 <= last_call.index /\ last_call.index < num_nodes(UsedIndex)
        THEN /\ last_call.raised = "none"
             /\ last_call.node[1].index = last_call.index
        ELSE last_call.raised = "IndexError"

\* the same without the negative arguments
GetNodeFromZero ==
    (last_call.op = "get_node" /\ last_call.index >= 0) => C17_GetNodeRange

\* the neighbours of a node by the edge table
NeighbourSet(ix, i) ==
    {j \in Indices(ix) : j # i /\ SortedPair(i, j) \in DOMAIN ix.edge_relations}

\* the number of edges at a node by the edge table
EdgeDegree(ix, i) == Cardinality(NeighbourSet(ix, i))

\* the list holds each neighbour once, by descending degree
ByDegree(ix, i, neighbors) ==
    /\ {neighbors[k] : k \in 1..Len(neighbors)} = NeighbourSet(ix, i)
    /\ Len(neighbors) = Cardinality(NeighbourSet(ix, i))
    /\ \A k \in 1..(Len(neighbors) - 1) :
          EdgeDegree(ix, neighbors[k]) >= EdgeDegree(ix, neighbors[k + 1])

\* C18: sorted_neighbors(index) returns exactly the neighbours of the node by
\* descending degree, and neighbours of equal degree in ascending index
\* order, whatever the order in which the build added their edges.
C18_SortedNeighbors ==
    last_call.op = "sorted_neighbors" =>
        /\ ByDegree(UsedIndex, last_call.index, last_call.neighbors)
        /\ \A k \in 1..(Len(last_call.neighbors) - 1) :
              EdgeDegree(UsedIndex, last_call.neighbors[k])
                  = EdgeDegree(UsedIndex, last_call.neighbors[k + 1])
              => last_call.neighbors[k] < last_call.neighbors[k + 1]

\* the same without the order among equal degrees
NeighboursByDegree ==
    last_call.op = "sorted_neighbors" =>
        ByDegree(UsedIndex, last_call.index, last_call.neighbors)

\* the edge table joins two distinct nodes
Joined(ix, i, j) == i # j /\ SortedPair(i, j) \in DOMAIN ix.edge_relations

\* some walk of at most d edges leads from node i to node j
RECURSIVE Reaches(_, _, _, _)
Reaches(ix, i, j, d) ==
    \/ i = j
    \/ /\ d > 0
       /\ \E m \in Indices(ix) : Joined(ix, i, m) /\ Reaches(ix, m, j, d - 1)

\* the hop distance between two nodes of one component
Distance(ix, i, j) ==
    CHOOSE d \in 0..num_nodes(ix) :
        /\ Reaches(ix, i, j, d)
        /\ d > 0 => ~Reaches(ix, i, j, d - 1)

\* C19: the keys of shortest_path_lengths(index, cutoff) are exactly the
\* nodes within cutoff hops of the source and the values are their hop
\* distances in the undirected relation graph; the source maps to 0, and with
\* cutoff 0 the mapping is {source: 0}.
C19_ShortestPathLengths ==
    last_call.op = "shortest_path_lengths" =>
        /\ DOMAIN last_call.lengths =
              {j \in Indices(UsedIndex) :
                  Reaches(UsedIndex, last_call.source_index, j, last_call.cutoff)}
        /\ \A j \in DOMAIN last_call.lengths :
              last_call.lengths[j] = Distance(UsedIndex, last_call.source_index, j)
        /\ last_call.lengths[last_call.source_index] = 0
        /\ last_call.cutoff = 0 =>
              last_call.lengths = [j \in {last_call.source_index} |-> 0]

\* a search with cutoff 1 that returns a neighbour and leaves out a node two
\* hops away
C19_Witness ==
    /\ last_call.op = "shortest_path_lengths"
    /\ last_call.cutoff = 1
    /\ \E j \in DOMAIN last_call.lengths : last_call.lengths[j] = 1
    /\ \E j \in Indices(UsedIndex) :
          /\ j \notin DOMAIN last_call.lengths
          /\ Reaches(UsedIndex, last_call.source_index, j, 2)
          /\ ~Reaches(UsedIndex, last_call.source_index, j, 1)

\* the documents of the store that the build indexes: every embedding of these
\* stores has the same length
IndexedDocs == {n \in 1..Len(store) : ~Falsy(store[n].embedding)}

\* the index position of an indexed document
PositionOf(n) == Cardinality({m \in IndexedDocs : m < n})

\* the references document n makes, each with its label
References(n) ==
    (IF store[n].parentID # None THEN {<<store[n].parentID, "hierarchy">>} ELSE {})
    \cup {<<store[n].children[k], "hierarchy">> : k \in 1..Len(store[n].children)}
    \cup {<<store[n].linkedNodes[k], "link">> : k \in 1..Len(store[n].linkedNodes)}

\* the values that refer to document m: its id, the string of its id, its node id
NamesOf(m) == {store[m].id, Str(store[m].id), store[m].nodeid}

\* the labels of the references between the indexed documents at positions i and j
LabelsBetween(i, j) ==
    {ref[2] : ref \in UNION {
        IF n # m /\ {PositionOf(n), PositionOf(m)} = {i, j}
        THEN {r \in References(n) : r[1] \in NamesOf(m)} ELSE {} :
        n \in IndexedDocs, m \in IndexedDocs}}

\* C20: after a build the relation graph is undirected and simple: no node is
\* its own neighbour and no neighbour is listed twice; two distinct indexed
\* nodes are joined if and only if one of the two documents references the
\* other as parent, child or link by a reference that resolves, so that
\* references to documents without an index position, to unknown ids and to
\* the document itself make no edge; the edge carries exactly the labels of
\* those references, merged into one non-empty set.
C20_RelationGraph ==
    r_index # NoObj =>
        LET ix == UsedIndex
        IN  /\ num_nodes(ix) = Cardinality(IndexedDocs)
            /\ \A i \in Indices(ix) :
                  /\ ~has_edge(ix, i, i)
                  /\ \A k, l \in 1..Len(ix.adj[i]) : ix.adj[i][k] = ix.adj[i][l] => k = l
                  /\ \A j \in Indices(ix) :
                        /\ has_edge(ix, i, j) <=> has_edge(ix, j, i)
                        /\ i # j => (has_edge(ix, i, j) <=> LabelsBetween(i, j) # {})
            /\ DOMAIN ix.edge_relations =
                  {SortedPair(i, j) : i, j \in Indices(ix)}
                  \cap {key \in Indices(ix) \X Indices(ix) :
                          key[1] < key[2] /\ LabelsBetween(key[1], key[2]) # {}}
            /\ \A key \in DOMAIN ix.edge_relations :
                  /\ ix.edge_relations[key] = LabelsBetween(key[1], key[2])
                  /\ ix.edge_relations[key] # {}
            /\ ix.stats.total_edges = Cardinality(DOMAIN ix.edge_relations)

\* a build from a store whose first document names itself as parent and names
\* a document without an embedding as child, and where one pair of nodes is
\* joined by a child reference and by a link
C20_Witness ==
    /\ r_index # NoObj
    /\ Len(store) = 3
    /\ store[1].parentID = store[1].id
    /\ store[1].children # <<>>
    /\ Falsy(store[2].embedding)
    /\ \E key \in DOMAIN UsedIndex.edge_relations :
          UsedIndex.edge_relations[key] = {"hierarchy", "link"}

\* a build from a store whose first document names an unknown parent
C20_WitnessUnknown ==
    /\ r_index # NoObj
    /\ store # <<>>
    /\ store[1].parentID = UnknownId
    /\ UsedIndex.edge_relations # EmptyMap

(***************************************************************************)
(* Properties of the build, under SpecBuild.                               *)
(***************************************************************************)
\* the document's vector is present, not empty and one-dimensional
ValidVector(doc) ==
    /\ doc.embedding.present
    /\ doc.embedding.v # <<>>
    /\ doc.embedding.ndim = 1

\* the length of the first valid vector in scan order
FirstLength ==
    LET first == CHOOSE n \in 1..Len(store) :
                    /\ ValidVector(store[n])
                    /\ \A m \in 1..(n - 1) : ~ValidVector(store[m])
    IN  Len(store[first].embedding.v)

\* the scan positions of the documents that belong in the index
Belongs ==
    {n \in 1..Len(store) :
        ValidVector(store[n]) /\ Len(store[n].embedding.v) = FirstLength}

\* the scan position of the document that belongs at index i
ArrivalAt(i) ==
    CHOOSE n \in Belongs : Cardinality({m \in Belongs : m < n}) = i

\* the external id of a document: its node id, or the string of its id
ExternalId(doc) == IF doc.nodeid # None THEN doc.nodeid ELSE Str(doc.id)

Seeds == last_call.trace.seed_indices

SeedSet == {Seeds[k] : k \in 1..Len(Seeds)}

\* seed_count seeds, each node once, the most similar ones, in descending
\* order of similarity
SeedsBySimilarity ==
    Retrieved =>
        /\ Len(Seeds) = Min(num_nodes(UsedIndex), Max(last_call.top_k, config.seed_top_k))
        /\ Cardinality(SeedSet) = Len(Seeds)
        /\ \A i \in SeedSet : \A j \in Indices(UsedIndex) \ SeedSet :
              LocalSimilarity(i) >= LocalSimilarity(j)
        /\ \A k \in 1..(Len(Seeds) - 1) :
              LocalSimilarity(Seeds[k]) >= LocalSimilarity(Seeds[k + 1])

\* C22: retrieve expands exactly min(node count, max(top_k, seed_top_k))
\* seeds, the nodes of highest local similarity in descending order, and
\* among nodes of equal similarity the one with the smaller index is selected
\* and iterated first.
C22_SeedSelection ==
    /\ SeedsBySimilarity
    /\ Retrieved =>
          /\ \A i \in SeedSet : \A j \in Indices(UsedIndex) \ SeedSet :
                LocalSimilarity(i) = LocalSimilarity(j) => i < j
          /\ \A k \in 1..(Len(Seeds) - 1) :
                LocalSimilarity(Seeds[k]) = LocalSimilarity(Seeds[k + 1])
                    => Seeds[k] < Seeds[k + 1]

\* the nodes a walk of at most config.hops edges reaches from the k-th seed
NeighbourhoodOf(k) ==
    {n \in Indices(UsedIndex) : Reaches(UsedIndex, Seeds[k], n, config.hops)}

\* the hop distance from the k-th seed to node n, or more than config.hops
\* when the seed does not reach the node
HopsFrom(k, n) ==
    IF n \in NeighbourhoodOf(k)
    THEN CHOOSE d \in 0..config.hops :
            /\ Reaches(UsedIndex, Seeds[k], n, d)
            /\ d > 0 => ~Reaches(UsedIndex, Seeds[k], n, d - 1)
    ELSE config.hops + 1

\* the subgraph score of the k-th seed: its neighbourhood's mean embedding,
\* normalised, against the query vector
SubgraphScoreOf(k) ==
    Dot(compute_subgraph_embedding(UsedIndex, NeighbourhoodOf(k)),
        embed_query(last_call.embedding))

\* the hop distances from the k-th seed to the first m nodes
RECURSIVE HopRow(_, _)
HopRow(k, m) ==
    IF m = 0 THEN <<>> ELSE Append(HopRow(k, m - 1), HopsFrom(k, m - 1))

\* per seed, in iteration order, its subgraph score and its hop distances
RECURSIVE SeedTable(_)
SeedTable(k) ==
    IF k = 0 THEN <<>>
    ELSE Append(SeedTable(k - 1),
                [subgraph_score |-> SubgraphScoreOf(k),
                 hops |-> HopRow(k, num_nodes(UsedIndex))])

\* the local similarities of the first m nodes
RECURSIVE LocalSimilarities(_)
LocalSimilarities(m) ==
    IF m = 0 THEN <<>>
    ELSE Append(LocalSimilarities(m - 1), LocalSimilarity(m - 1))

\* what the seed loop works from, computed from the index and the seeds
SeedLoopInputs ==
    [seed |-> SeedTable(Len(Seeds)),
     local |-> LocalSimilarities(num_nodes(UsedIndex))]

\* the seeds, by place in the iteration, whose neighbourhood holds node n
SeedsReaching(t, n) ==
    {k \in 1..Len(t.seed) : t.seed[k].hops[n + 1] <= config.hops}

\* the clamped fusion the k-th seed gives node n
Contribution(t, k, n) ==
    combined_score(config, t.local[n + 1], t.seed[k].subgraph_score,
                   t.seed[k].hops[n + 1])

\* the first seed in iteration order that gives node n its highest contribution
BestSeed(t, n) ==
    CHOOSE k \in SeedsReaching(t, n) :
        /\ \A j \in SeedsReaching(t, n) : Contribution(t, k, n) >= Contribution(t, j, n)
        /\ \A j \in SeedsReaching(t, n) :
              j < k => Contribution(t, j, n) < Contribution(t, k, n)

\* the context the k-th seed records for node n
ContextFrom(t, k, n) ==
    [seed_node |-> get_node(UsedIndex, Seeds[k]).nodeid,
     hop_distance |-> t.seed[k].hops[n + 1],
     subgraph_score |-> t.seed[k].subgraph_score,
     local_similarity |-> t.local[n + 1]]

\* the context a result record gets for a node without a recorded context
DefaultContext(t, n) ==
    [seed_node |-> get_node(UsedIndex, n).nodeid,
     hop_distance |-> 0,
     subgraph_score |-> t.local[n + 1],
     local_similarity |-> t.local[n + 1]]

\* the context part of a result record that the seed loop decides
Provenance(rec) ==
    [seed_node |-> rec.graph_context.seed_node,
     hop_distance |-> rec.graph_context.hop_distance,
     subgraph_score |-> rec.graph_context.subgraph_score,
     local_similarity |-> rec.graph_context.local_similarity]

\* the fused score before the floor step is the highest contribution
FusedIsMax(t) ==
    \A n \in last_call.trace.candidate_indices :
        /\ SeedsReaching(t, n) # {}
        /\ last_call.trace.fused_scores[n] = Contribution(t, BestSeed(t, n), n)

\* C23 as stated: the fused score of a node before the floor step is the
\* maximum over the seeds reaching it of the clamped fusion, and the context
\* kept for the node, and returned with it, is that of the earliest-iterated
\* seed attaining the maximum.
C23_EarliestBestSeed ==
    Retrieved =>
        LET t == SeedLoopInputs
        IN  /\ FusedIsMax(t)
            /\ \A n \in last_call.trace.candidate_indices :
                  /\ n \in DOMAIN last_call.trace.node_context
                  /\ last_call.trace.node_context[n] = ContextFrom(t, BestSeed(t, n), n)
            /\ \A k \in 1..Len(Results) :
                  Provenance(Results[k])
                     = ContextFrom(t, BestSeed(t, NodeOf(Results[k])), NodeOf(Results[k]))

\* C23 amended: the same for the nodes whose highest contribution is above
\* -1; a node whose every contribution is -1 never exceeds the initial score,
\* has no context recorded, and is returned with the default context: itself
\* as seed, hop distance 0 and its local similarity as subgraph score.
C23_MaxOverSeeds ==
    Retrieved =>
        LET t == SeedLoopInputs
        IN  /\ FusedIsMax(t)
            /\ \A n \in last_call.trace.candidate_indices :
                  LET b == BestSeed(t, n)
                  IN  IF Contribution(t, b, n) > -Unit
                      THEN /\ n \in DOMAIN last_call.trace.node_context
                           /\ last_call.trace.node_context[n] = ContextFrom(t, b, n)
                      ELSE n \notin DOMAIN last_call.trace.node_context
            /\ \A k \in 1..Len(Results) :
                  LET n == NodeOf(Results[k])
                      b == BestSeed(t, n)
                  IN  Provenance(Results[k]) =
                         IF Contribution(t, b, n) > -Unit
                         THEN ContextFrom(t, b, n)
                         ELSE DefaultContext(t, n)

\* a returned node that several seeds reach with different contributions, the
\* best of them not from the first seed that reaches it
C23_Witness ==
    /\ Retrieved
    /\ LET t == SeedLoopInputs
       IN  \E k \in 1..Len(Results) :
              LET n == NodeOf(Results[k])
                  b == BestSeed(t, n)
              IN  /\ Cardinality(SeedsReaching(t, n)) > 1
                  /\ \E j \in SeedsReaching(t, n) :
                        j < b /\ Contribution(t, j, n) < Contribution(t, b, n)
                  /\ Provenance(Results[k]) = ContextFrom(t, b, n)

\* a returned node whose every contribution is -1
C23_WitnessDefault ==
    /\ Retrieved
    /\ LET t == SeedLoopInputs
       IN  \E k \in 1..Len(Results) :
              LET n == NodeOf(Results[k])
              IN  /\ Contribution(t, BestSeed(t, n), n) = -Unit
                  /\ Provenance(Results[k]) = DefaultContext(t, n)

(***************************************************************************)
(* The truncation of the candidate set (lines 502-503).                    *)
(***************************************************************************)
\* x, in units of 1/Unit, rounded to the nearest integer, a half to the even
\* neighbour as round() does
Rounded(x) ==
    LET whole == x \div Unit
        rest == x % Unit
    IN  IF 2 * rest > Unit THEN whole + 1
        ELSE IF 2 * rest < Unit THEN whole
        ELSE IF whole % 2 = 0 THEN whole ELSE whole + 1

\* the candidates kept are the highest-scoring ones
KeepsHighest ==
    LET kept == {last_call.trace.ordered[k] : k \in 1..Len(last_call.trace.ordered)}
    IN  /\ kept \subseteq last_call.trace.candidate_indices
        /\ Cardinality(kept) = Len(last_call.trace.ordered)
        /\ \A i \in kept : \A j \in last_call.trace.candidate_indices \ kept :
              last_call.trace.final_scores[i] >= last_call.trace.final_scores[j]

\* what lines 502-503 do: the product is cut to its whole part
TruncationFloors ==
    Retrieved =>
        /\ KeepsHighest
        /\ Len(last_call.trace.ordered)
              = Min(Min(num_nodes(UsedIndex),
                        Max(request.top_k,
                            (request.top_k * config.candidate_multiplier) \div Unit)),
                    Cardinality(last_call.trace.candidate_indices))

\* C24: before the threshold filter retrieve keeps exactly
\* min(node_count, max(top_k, round(top_k * candidate_multiplier)), number of
\* candidates) highest-scoring candidates, the product rounded to the nearest
\* integer.
C24_CandidateTruncation ==
    Retrieved =>
        /\ KeepsHighest
        /\ Len(last_call.trace.ordered)
              = Min(Min(num_nodes(UsedIndex),
                        Max(request.top_k,
                            Rounded(request.top_k * config.candidate_multiplier))),
                    Cardinality(last_call.trace.candidate_indices))

(***************************************************************************)
(* The hop decay of the fusion (lines 471-481).                            *)
(***************************************************************************)
Fusing == last_call.op = "combined_score" /\ config.hop_decay < Unit

\* the sign of subgraph_weight * subgraph_score
WeightedSubgraphSign ==
    IF config.subgraph_weight * request.subgraph_score > 0 THEN 1
    ELSE IF config.subgraph_weight * request.subgraph_score < 0 THEN -1 ELSE 0

\* the weighted subgraph terms at the two distances differ by at least the
\* precision of the arithmetic
DecayShows ==
    Mul(config.subgraph_weight, request.subgraph_score)
        * (Pow(config.hop_decay, request.hop_distance)
              - Pow(config.hop_decay, request.hop_distance + 1)) >= Unit

\* neither score sits at a bound of [-1, 1]
InsideBounds ==
    /\ -Unit < last_call.at /\ last_call.at < Unit
    /\ -Unit < last_call.further /\ last_call.further < Unit

\* C25 as stated: with hop_decay < 1 and hops > 0, all else fixed, a node at
\* hop distance h + 1 gets a strictly lower combined score from a seed than
\* at hop distance h, for every valid configuration and every subgraph score
\* in [-1, 1].
C25_StrictHopDecay ==
    Fusing => last_call.further < last_call.at

\* C25 amended: the score a hop further is not higher when
\* subgraph_weight * subgraph_score >= 0 and not lower when it is <= 0; it is
\* strictly lower when the product is positive, the two weighted subgraph
\* terms differ by at least the precision of the arithmetic, and neither
\* score sits at a bound of [-1, 1].
C25_HopDecay ==
    Fusing =>
        /\ WeightedSubgraphSign >= 0 => last_call.further <= last_call.at
        /\ WeightedSubgraphSign <= 0 => last_call.further >= last_call.at
        /\ (WeightedSubgraphSign > 0 /\ DecayShows /\ InsideBounds)
              => last_call.further < last_call.at

\* a positive subgraph term whose decay shows, between the bounds
C25_Witness ==
    /\ Fusing
    /\ WeightedSubgraphSign > 0 /\ DecayShows /\ InsideBounds
    /\ last_call.further < last_call.at

\* a negative subgraph score: the node a hop further scores higher
C25_WitnessNegative ==
    /\ Fusing
    /\ WeightedSubgraphSign < 0
    /\ last_call.further > last_call.at

(***************************************************************************)
(* The example scenario.                                                   *)
(***************************************************************************)
\* the call of the scenario: hops = 1, seed_top_k = 1, top_k = 3, threshold 0
Scenario ==
    /\ Retrieved
    /\ config.hops = 1 /\ config.seed_top_k = 1
    /\ request.top_k = 3 /\ request.threshold = 0

\* the nodes returned, in order (A is node 0, D is node 3)
ReturnedNodes == [k \in 1..Len(Results) |-> NodeOf(Results[k])]

\* the similarities of the scenario: 0.9, 0.5, 0.4, 0.1
ScenarioSimilarities ==
    /\ LocalSimilarity(0) = Frac(9, 10) /\ LocalSimilarity(1) = Frac(5, 10)
    /\ LocalSimilarity(2) = Frac(4, 10) /\ LocalSimilarity(3) = Frac(1, 10)

\* the hop distances of the k-th seed's neighbourhood, by node
NeighbourhoodHops(k) == [n \in NeighbourhoodOf(k) |-> HopsFrom(k, n)]

FailedRefresh == last_call.op = "refresh_index" /\ last_call.raised # "none"

\* C27: if building the new GraphIndex raises during a refresh, forced or
\* TTL-triggered, the previously published index object and its build
\* timestamp are both unchanged, and once a call has returned the retriever
\* never holds an index without a timestamp or a timestamp without an index.
C27_FailedRebuild ==
    /\ (r_index = NoObj) <=> (last_built_at = NoTime)
    /\ FailedRefresh =>
          /\ r_index = last_call.index_before
          /\ last_built_at = last_call.built_before
          /\ CachedObject(heap, r_index) = last_call.object_before

\* a refresh triggered by the TTL fails while an index built from an older
\* store is published
C27_Witness ==
    /\ FailedRefresh
    /\ ~last_call.force
    /\ r_index # NoObj
    /\ heap[r_index] # GraphIndex(store)
    /\ now = last_call.at

\* a forced refresh fails while an index is published
C27_WitnessForced ==
    /\ FailedRefresh
    /\ last_call.force
    /\ r_index # NoObj

(***************************************************************************)
(* The truncation and the threshold filter (lines 502-525).                *)
(***************************************************************************)
\* the candidates whose score is at least the threshold
Passing ==
    {c \in last_call.trace.candidate_indices :
        last_call.trace.final_scores[c] >= request.threshold}

\* the returned list is the first top_k of the passing candidates taken in
\* descending order of score
FirstOfPassing ==
    LET fs == last_call.trace.final_scores
        R == ReturnedNodes
    IN  /\ Len(R) = Min(request.top_k, Cardinality(Passing))
        /\ \A k \in 1..Len(R) : R[k] \in Passing /\ Results[k].score = fs[R[k]]
        /\ \A k \in 1..Len(R) : \A l \in (k + 1)..Len(R) :
              R[k] # R[l] /\ fs[R[k]] >= fs[R[l]]
        /\ \A c \in Passing \ {R[k] : k \in 1..Len(R)} :
              \A k \in 1..Len(R) : fs[c] <= fs[R[k]]

\* the lists retrieve can return from index ix for the current request and
\* its unit query vector under candidate_multiplier m
ListsUnder(ix, query_vector, m) ==
    {out.result :
        out \in RetrieveOutcomes(ix, [config EXCEPT !.candidate_multiplier = m],
                                 query_vector, request.top_k, request.threshold)}

\* C28: the list retrieve returns is the first top_k of the candidates with
\* score >= threshold in descending order of score, so that truncating by
\* candidate_multiplier before the threshold filter gives what truncating
\* after it would, and the list does not depend on candidate_multiplier.
C28_TruncationImmaterial ==
    /\ Retrieved => FirstOfPassing
    /\ (last_call = NoCall /\ config.candidate_multiplier # Unit)
          => LET ix == GraphIndex(store)
                 query_vector == embed_query(request.embedding)
             IN  ListsUnder(ix, query_vector, config.candidate_multiplier)
                    = ListsUnder(ix, query_vector, Unit)

\* the truncation cut candidates off, the threshold removed one of those
\* kept, and a list was returned
C28_Witness ==
    /\ Retrieved
    /\ Len(last_call.trace.ordered) < Cardinality(last_call.trace.candidate_indices)
    /\ \E k \in 1..Len(last_call.trace.ordered) :
          last_call.trace.ordered[k] \notin Passing
    /\ Results # <<>>

(***************************************************************************)
(* Where the candidates come from (lines 461-500).                         *)
(***************************************************************************)
\* the hop distances from each of the first k seeds to every node
RECURSIVE HopRows(_)
HopRows(k) ==
    IF k = 0 THEN <<>>
    ELSE Append(HopRows(k - 1), HopRow(k, num_nodes(UsedIndex)))

\* the nodes within config.hops of a seed, for hop distances rows
WithinHops(rows) ==
    {n \in Indices(UsedIndex) : \E k \in 1..Len(rows) : rows[k][n + 1] <= config.hops}

\* C29: on a non-empty index every seed is in its own neighbourhood at
\* distance 0, so the candidate set holds every seed and is never empty, the
\* fallback to the seed set is never taken, and every node retrieve returns
\* lies within hops hops of a seed.
C29_CandidatesFromSeeds ==
    Retrieved =>
        LET rows == HopRows(Len(Seeds))
        IN  /\ Seeds # <<>>
            /\ \A k \in 1..Len(Seeds) : rows[k][Seeds[k] + 1] = 0
            /\ SeedSet \subseteq last_call.trace.expanded
            /\ last_call.trace.expanded # {}
            /\ last_call.trace.candidate_indices = last_call.trace.expanded
            /\ last_call.trace.expanded = WithinHops(rows)
            /\ \A k \in 1..Len(Results) : NodeOf(Results[k]) \in WithinHops(rows)

\* a node outside every seed neighbourhood that passes the threshold and is
\* as similar to the query as a returned node, next to a candidate that is
\* not a seed
C29_Witness ==
    /\ Retrieved
    /\ LET rows == HopRows(Len(Seeds))
       IN  /\ \E n \in Indices(UsedIndex) \ WithinHops(rows) :
                 /\ LocalSimilarity(n) >= request.threshold
                 /\ \E k \in 1..Len(Results) :
                       LocalSimilarity(n) >= LocalSimilarity(NodeOf(Results[k]))
           /\ last_call.trace.expanded # SeedSet

(***************************************************************************)
(* A refresh through the SearchManager.                                    *)
(***************************************************************************)
ForcedManagerRefresh == last_call.op = "manager_refresh_index" /\ last_call.force

\* C30: SearchManager.refresh_index(force=True) rebuilds the cached graph
\* index exactly once per call, in every state of the manager: retriever not
\* yet created, index not yet built, index fresh, and index stale with
\* auto_refresh enabled.
C30_RebuildsOnce ==
    ForcedManagerRefresh => last_call.rebuilds = 1

\* what the code does: one rebuild, and a second one before it when the
\* retriever exists, auto_refresh is set and the index is not yet built or
\* its TTL has run out
RebuildsOnceOrTwice ==
    ForcedManagerRefresh =>
        last_call.rebuilds =
            IF /\ last_call.retriever_before
               /\ auto_refresh
               /\ \/ last_call.index_before = NoObj
                  \/ /\ config.cache_ttl_seconds # NoTTL
                     /\ last_call.at - last_call.built_before >= config.cache_ttl_seconds
            THEN 2 ELSE 1

\* a forced refresh of a manager whose retriever holds an index rebuilds once
ManagerStatesCovered ==
    /\ ForcedManagerRefresh
    /\ last_call.retriever_before /\ last_call.index_before # NoObj
    /\ last_call.rebuilds = 1

====
